---- MODULE Spec2Model ----
(***************************************************************************)
(* Model of the realtime voice gateway: the audio framer (AudioService),   *)
(* the upstream session service (LLMService), its tool executor, and the   *)
(* client broker (Socket).                                                 *)
(*                                                                         *)
(* Several specifications share the module:                                *)
(*   FramerSpec      the pure audio framer applied to bounded byte buffers *)
(*   Spec            the broker: connections, upstream sockets, event bus  *)
(*   AudioSpec       one connection sending audio and turn boundaries      *)
(*   ToolSpec        the tool executor of the upstream session service     *)
(*   CallSpec        streamed function-call arguments and their parsing    *)
(*   InstrSpec       instruction updates and the recorded hash             *)
(*   OpsSpec         session operations over a session's whole life        *)
(*   RegistrySpec    repeated creation of one session id                   *)
(*   HeartbeatSpec   the client heartbeat                                  *)
(*   ValidationSpec  malformed and well-formed client frames               *)
(*   FeedSpec        response stream events fanned out to two clients      *)
(*   AwaitSpec       sendTextMessageWithResponse and its listeners         *)
(*   RagSpec         the retrieval client applied to bounded responses     *)
(*   KeepaliveSpec   the upstream keepalive over the life of the sessions  *)
(*   ConfidenceSpec  tool calls with their own mode and threshold          *)
(*   CloseSpec       closeSession called on any id, repeatedly             *)
(*   VoiceSpec       CREATE_SESSION requests of the legacy voice handler   *)
(*   AwaitLiveSpec   AwaitSpec with upstream sockets that eventually close *)
(***************************************************************************)
EXTENDS Integers, Sequences, FiniteSets, TLC

VARIABLES
    \* ---- audio framer harness (FramerSpec) ----
    input,          \* the Buffer handed to the framer
    chunkBytes,     \* the chunk size argument
    framerOut,      \* outcome of toBase64PcmChunks(input, chunkBytes), or NotCalled
    chunkOut,       \* outcome of chunkBuffer(input, chunkBytes), or NotCalled
    \* ---- broker and upstream session service ----
    client,         \* connection -> readyState of the client socket
    phase,          \* connection -> position of the connection handler
    up,             \* session id -> readyState of the upstream socket
    clients,        \* LLMService.clients: the registered session ids
    listeners,      \* handlers subscribed on the event bus, as <<connection, event>>
    llmHandlers,    \* connection -> ws._llmHandlers (the events recorded for cleanup)
    crashed,        \* an exception escaped a handler (the process is gone)
    clientOut,      \* connection -> envelopes written to the client socket
    upLog,          \* session id -> frames sent on the upstream socket
    recv,           \* connection -> client frames delivered to the message handler
    dropped,        \* connection -> client frames that arrived with no handler attached
    upEvents,       \* number of upstream messages delivered so far
    \* ---- tool executor ----
    now,            \* Date.now(), in ms
    fcalls,         \* LLMService.fcalls: session id -> pending tool calls by call_id
    lastToolAt,     \* LLMService.lastToolAt: session id -> ms, or Undefined
    lowConfidenceCount, \* LLMService.lowConfidenceCount: session id -> count, or Undefined
    inflight,       \* retrievals awaiting ragService.searchVectorDB
    dispatches,     \* session id -> history of _handleToolCall invocations
    results,        \* session id -> history of retrieval results, "low" or "ok"
    returned,       \* session id -> history of the score lists searchVectorDB returned
    arrived,        \* session id -> the arguments.delta messages of calls not yet done, as [id, delta]
    doneLog,        \* session id -> history of arguments.done messages
    parsed,         \* session id -> argument texts parsed at done, with the deltas that arrived
    \* ---- session metadata ----
    lastInstrHash,  \* LLMService.meta: session id -> lastInstrHash, or NoHash
    instrCalls,     \* session id -> history of _maybeUpdateInstructions calls
    upSeen,         \* session id -> types of the upstream messages received
    orphans,        \* session id -> upstream sockets replaced in LLMService.clients
    opLog,          \* session id -> history of session operations and their outcomes
    \* ---- client heartbeat ----
    isAlive,        \* connection -> ws.isAlive
    silentTicks,    \* connection -> heartbeat ticks since its last pong (or since it connected)
    hbTerminated,   \* connection -> the heartbeat has terminated the socket
    pings,          \* connection -> pings sent by the heartbeat
    hbTicks,        \* heartbeat ticks so far
    \* ---- further histories ----
    thrown,         \* session id -> history of retrievals that threw, as [id, open]
    emitted,        \* session id -> number of feed events its upstream handlers emitted on the bus
    feed,           \* session id -> upstream messages received, as [type, output_index, delta, open]
    waiters,        \* session id -> the sendTextMessageWithResponse calls: listeners, acc, promise
    \* ---- upstream keepalive ----
    keepalive,      \* session id -> the keepalive interval of its upstream socket is set
    kaTicks,        \* session id -> times the keepalive interval fired
    upPings,        \* session id -> pings the keepalive sent upstream
    lastPing,       \* LLMService.meta: session id -> lastPing, or Undefined
    \* ---- legacy voice handler (VoiceSpec) ----
    voiceClients,   \* VoiceSocketHandler.clients: session id -> the request that registered it, or None
    voiceRequests,  \* request -> its session id and how far handleCreateSession has come
    voiceOpened,    \* session id -> upstream sessions opened and registered for it
    \* ---- retrieval client harness (RagSpec) ----
    ragIn,          \* the model response and the options handed to searchVectorDB
    ragOut          \* outcome of searchVectorDB, or NotCalled

framerVars == <<input, chunkBytes, framerOut, chunkOut>>

ragVars == <<ragIn, ragOut>>

voiceVars == <<voiceClients, voiceRequests, voiceOpened>>

pureVars == <<framerVars, ragVars, voiceVars>>

connVars == <<client, phase, up, clients, listeners, llmHandlers, crashed>>

logVars == <<clientOut, upLog, recv, dropped, upEvents>>

toolVars == <<now, fcalls, lastToolAt, lowConfidenceCount, inflight, dispatches, results, returned>>

callVars == <<arrived, doneLog, parsed>>

metaVars == <<lastInstrHash, instrCalls, upSeen, orphans, opLog>>

hbVars == <<isAlive, silentTicks, hbTerminated, pings, hbTicks>>

histVars == <<thrown, emitted, feed, waiters>>

kaVars == <<keepalive, kaTicks, upPings, lastPing>>

extVars == <<histVars, kaVars>>

auxVars == <<callVars, metaVars, hbVars, extVars>>

brokerVars == <<connVars, logVars, toolVars, auxVars>>

vars == <<pureVars, brokerVars>>

----------------------------------------------------------------------------
(* Bounds of the model *)

\* longest byte buffer enumerated for the framer
MaxBufLen == 4
\* largest explicit chunk size enumerated for the framer
MaxChunkArg == 3

(* Program constants *)

\* chunkBuffer(buf, size = 12_288), toBase64PcmChunks(input, chunkBytes = 12_288)
DefaultChunkBytes == 12288

----------------------------------------------------------------------------
(* Generic helpers *)

Min(a, b) == IF a < b THEN a ELSE b

Max(a, b) == IF a > b THEN a ELSE b

Range(f) == {f[i] : i \in DOMAIN f}

RECURSIVE Flatten(_)
Flatten(ss) ==
    IF Len(ss) = 0 THEN <<>> ELSE Head(ss) \o Flatten(Tail(ss))

NotCalled == [called |-> FALSE]

Returned(v) == [called |-> TRUE, threw |-> FALSE, value |-> v]

Threw(msg) == [called |-> TRUE, threw |-> TRUE, value |-> msg]

----------------------------------------------------------------------------
(* Node Buffers.  A Buffer is a view [from, to) on backing memory `data`.   *)
(* kind = "bytes":  data is the byte sequence itself (values 0..255).       *)
(* kind = "opaque": data names the memory (a client frame) whose content    *)
(*                  is not enumerated; only offsets and lengths are known.  *)

BytesBuffer(seq) == [kind |-> "bytes", data |-> seq, from |-> 0, to |-> Len(seq)]

OpaqueBuffer(id, len) == [kind |-> "opaque", data |-> id, from |-> 0, to |-> len]

\* buf.length
BufLength(buf) == buf.to - buf.from

\* buf.slice(start, end): a view, both offsets clamped to the buffer
BufSlice(buf, start, end) ==
    LET s == Min(start, BufLength(buf))
        e == Max(s, Min(end, BufLength(buf)))
    IN  [buf EXCEPT !.from = buf.from + s, !.to = buf.from + e]

\* the bytes of a "bytes" buffer
BufBytes(buf) == SubSeq(buf.data, buf.from + 1, buf.to)

\* RFC 4648 base64 of a byte sequence, as a sequence of sextets 0..63 with
\* 64 standing for the padding character '='
Pad == 64

Base64Encode(bytes) ==
    LET n == Len(bytes)
        groups == (n + 2) \div 3
        byteAt(i) == IF i <= n THEN bytes[i] ELSE 0
        word(g) == byteAt(3 * g + 1) * 65536 + byteAt(3 * g + 2) * 256 + byteAt(3 * g + 3)
        sextet(g, j) ==
            CASE j = 0 -> word(g) \div 262144
              [] j = 1 -> (word(g) \div 4096) % 64
              [] j = 2 -> IF 3 * g + 2 > n THEN Pad ELSE (word(g) \div 64) % 64
              [] j = 3 -> IF 3 * g + 3 > n THEN Pad ELSE word(g) % 64
    IN  [i \in 1..(4 * groups) |-> sextet((i - 1) \div 4, (i - 1) % 4)]

\* b.toString("base64")
ToStringBase64(buf) ==
    IF buf.kind = "bytes"
    THEN [enc |-> "base64", text |-> Base64Encode(BufBytes(buf))]
    ELSE [enc |-> "base64", of |-> buf.data, from |-> buf.from, to |-> buf.to]

----------------------------------------------------------------------------
(* AudioService *)

chunkBufferDropsLastByte(buf, size) ==
    IF BufLength(buf) = 0
    THEN <<>>
    ELSE LET count == (BufLength(buf) + size - 1) \div size
         IN  [k \in 1..count |-> BufSlice(buf, (k - 1) * size, (k - 1) * size + size - 1)]

\* for (let i = 0; i < buf.length; i += size) out.push(buf.slice(i, i + size))
chunkBuffer(buf, size) ==
    IF BufLength(buf) = 0
    THEN <<>>
    ELSE LET count == (BufLength(buf) + size - 1) \div size
         IN  [k \in 1..count |-> BufSlice(buf, (k - 1) * size, (k - 1) * size + size)]

looksLikePcm16NoMinimum(buf) ==
    BufLength(buf) % 2 = 0

looksLikePcm16IgnoresParity(buf) ==
    BufLength(buf) >= 2

\* Buffer.isBuffer(buf) && buf.length >= 2 && buf.length % 2 === 0
looksLikePcm16(buf) ==
    BufLength(buf) >= 2 /\ BufLength(buf) % 2 = 0

\* every input of the model is a Buffer, so the isBuffer guards never fire
toBase64PcmChunks(buf, size) ==
    IF ~looksLikePcm16(buf)
    THEN Threw("Invalid PCM16 buffer.")
    ELSE LET parts == chunkBuffer(buf, size)
         IN  Returned([k \in DOMAIN parts |-> ToStringBase64(parts[k])])

----------------------------------------------------------------------------
(* Tool executor: constants and the pending-call map *)

\* null, and a value that is absent
Null == [json |-> "null"]

\* Map.get of a missing key
Undefined == -1

\* x || 0
OrZero(x) == IF x = Undefined THEN 0 ELSE x

\* this.fcalls has no entry for the session
NoMap == [present |-> FALSE, calls |-> <<>>]

\* new Map()
EmptyMap == [present |-> TRUE, calls |-> <<>>]

\* this.minToolIntervalMs
minToolIntervalMs == 1200

\* scores and thresholds are held in hundredths: 0.3, 0.4
DefaultThreshold == 30

ProvisionalThreshold == 40

DefaultTopK == 2

\* the low-confidence count from which the escalation message is used
EscalateFrom == 3

RetryMessage == "no related document found, please ask again"

EscalationMessage == "still no related document, please contact the person in charge"

\* Date.now() at process start, and the steps the clock advances by
Epoch == 100000

TickSteps == {600}

\* JSON texts streamed as function-call arguments
ArgsFinal == "{\"query\":\"q\"}"

ArgsProvisional == "{\"query\":\"q\",\"mode\":\"provisional\"}"

\* arguments that carry a threshold of their own (0.5, as a percentage: 50)
ArgsStrict == "{\"query\":\"q\",\"mode\":\"provisional\",\"threshold\":0.5}"

ArgsStrictFinal == "{\"query\":\"q\",\"threshold\":0.5}"

\* a JSON text that arrives in two fragments
ArgsHead == "{\"query\":"

ArgsTail == "\"q\"}"

\* JSON.parse of the accumulated argument text (a sequence of fragments);
\* info.args ? JSON.parse(info.args) : {}, and {} when parsing throws
ParseArgs(args) ==
    LET text == SelectSeq(args, LAMBDA f : f # "")
    IN  IF text = <<ArgsFinal>> \/ text = <<ArgsHead, ArgsTail>>
        THEN [query |-> "q", mode |-> "", topK |-> Undefined, threshold |-> Undefined]
        ELSE IF text = <<ArgsProvisional>>
        THEN [query |-> "q", mode |-> "provisional", topK |-> Undefined, threshold |-> Undefined]
        ELSE IF text = <<ArgsStrict>>
        THEN [query |-> "q", mode |-> "provisional", topK |-> Undefined, threshold |-> 50]
        ELSE IF text = <<ArgsStrictFinal>>
        THEN [query |-> "q", mode |-> "", topK |-> Undefined, threshold |-> 50]
        ELSE [query |-> "", mode |-> "", topK |-> Undefined, threshold |-> Undefined]

\* calls.get(call_id)
PendingCall(s, id) ==
    IF fcalls[s].present /\ id \in DOMAIN fcalls[s].calls THEN fcalls[s].calls[id] ELSE Null

\* calls.set(call_id, entry); this.fcalls.set(sessionId, calls)
WithCall(s, id, entry) ==
    LET old == fcalls[s].calls
    IN  [present |-> TRUE,
         calls |-> [k \in (DOMAIN old) \cup {id} |-> IF k = id THEN entry ELSE old[k]]]

\* calls.delete(call_id); this.fcalls.set(sessionId, calls)
WithoutCall(s, id) ==
    LET old == fcalls[s].calls
    IN  [present |-> TRUE, calls |-> [k \in (DOMAIN old) \ {id} |-> old[k]]]

----------------------------------------------------------------------------
(* LLMService._hash and the instructions of a session.  A string is the    *)
(* sequence of its UTF-16 code units; the 32-bit accumulator is kept as    *)
(* two 16-bit halves <<high, low>>.                                        *)

Half == 65536

\* bitwise exclusive or of two naturals
RECURSIVE Xor(_, _)
Xor(a, b) ==
    IF a = 0 THEN b
    ELSE IF b = 0 THEN a
    ELSE (((a % 2) + (b % 2)) % 2) + 2 * Xor(a \div 2, b \div 2)

\* h = (h * 33) ^ code, in 32 bits
HashStep(h, code) ==
    LET low == h[2] * 33
        high == ((h[1] * 33) + (low \div Half)) % Half
    IN  <<high, Xor(low % Half, code)>>

\* the accumulator after the code units i..1 have been folded in, last first
RECURSIVE HashFrom(_, _, _)
HashFrom(h, str, i) ==
    IF i = 0 THEN h ELSE HashFrom(HashStep(h, str[i]), str, i - 1)

\* Number.prototype.toString(36) of an unsigned 32-bit value: its base-36
\* digits, most significant first
RECURSIVE ToString36(_)
ToString36(h) ==
    LET rest == ((h[1] % 36) * Half) + h[2]
        quotient == <<h[1] \div 36, rest \div 36>>
        digit == rest % 36
    IN  IF quotient = <<0, 0>> THEN <<digit>> ELSE Append(ToString36(quotient), digit)

\* _hash(str): h = 5381; while (i) h = (h * 33) ^ str.charCodeAt(--i);
\* (h >>> 0).toString(36)
Hash(str) == ToString36(HashFrom(<<0, 5381>>, str, Len(str)))

\* the lastInstrHash of a session without metadata (undefined); no string
\* hashes to it
NoHash == <<>>

\* _buildSystemPrompt("", sessionContext, audioContext), abridged to one unit
BaseInstr == <<80>>

InstructionsFrame(instr) == [type |-> "session.update", instructions |-> instr]

----------------------------------------------------------------------------
(* Connections and sessions.  Each accepted client connection mints its    *)
(* own session id (genId), so a connection and its session share a name.   *)

Conns == {"s1", "s2"}

\* the six stream events _setupLLMForwarding maps onto client envelopes
ForwardedEvents ==
    {"text_delta", "text_done", "audio_transcript_delta",
     "audio_transcript_done", "audio_delta", "audio_done"}

\* every event a connection subscribes to
HandlerEvents == ForwardedEvents \cup {"error", "closed"}

\* type of the client envelope of a forwarded stream event
EnvelopeType(event) ==
    CASE event = "text_delta" -> "response.text.delta"
      [] event = "text_done" -> "response.text.done"
      [] event = "audio_transcript_delta" -> "response.audio_transcript.delta"
      [] event = "audio_transcript_done" -> "response.audio_transcript.done"
      [] event = "audio_delta" -> "response.audio.delta"
      [] event = "audio_done" -> "response.audio.done"

\* an envelope on the client socket; `src` records the session whose
\* upstream event (or whose own client frame) it was derived from
Envelope(channel, type, code, message, src) ==
    [channel |-> channel, type |-> type, code |-> code, message |-> message, src |-> src,
     output_index |-> Undefined]

\* Socket._sendError / Socket._sendConv: nothing is written unless the socket is OPEN
SendTo(out, c, env) ==
    IF client[c] = "open" THEN [out EXCEPT ![c] = Append(@, env)] ELSE out

ErrorEnvelope(code, message, src) == Envelope("openai:error", "", code, message, src)

----------------------------------------------------------------------------
(* Socket._setupLLMForwarding: the handlers of one connection *)

\* the events whose mapper copies `delta` next to `output_index`
DeltaEvents == {"text_delta", "audio_transcript_delta", "audio_delta"}

\* the mapper of fwd(event, mapper), spread into the conversation envelope
ConversationEnvelope(event, payload) ==
    [Envelope("openai:conversation", EnvelopeType(event), 0,
              IF event \in DeltaEvents THEN payload.delta ELSE "", payload.sessionId)
        EXCEPT !.output_index = payload.output_index]

fwdHandlerUnfiltered(c, event, payload) ==
    <<ConversationEnvelope(event, payload)>>

\* handler of fwd(event, mapper): drops events of other sessions
fwdHandler(c, event, payload) ==
    IF payload.sessionId # c
    THEN <<>>
    ELSE <<ConversationEnvelope(event, payload)>>

\* onErr: no session filter
onErr(c, payload) ==
    <<ErrorEnvelope(payload.code, "Upstream error", payload.sessionId)>>

\* onClosed: no session filter
onClosed(c, payload) ==
    <<ErrorEnvelope(payload.code, "Upstream closed", payload.sessionId)>>

\* what the handler connection c subscribed for `event` writes for payload
HandlerOutput(c, event, payload) ==
    IF event \in ForwardedEvents THEN fwdHandler(c, event, payload)
    ELSE IF event = "error" THEN onErr(c, payload)
    ELSE onClosed(c, payload)

\* LLMService._emit -> EventEmitter.emit: every subscribed handler runs; the
\* handlers write only when their own client socket is OPEN
Emit(out, event, payload) ==
    [c \in Conns |->
        IF <<c, event>> \in listeners /\ client[c] = "open"
        THEN out[c] \o HandlerOutput(c, event, payload)
        ELSE out[c]]

\* EventEmitter.emit("error") throws when nobody listens for "error"
EmitThrows(event) ==
    event = "error" /\ ~(\E c \in Conns : <<c, "error">> \in listeners)

----------------------------------------------------------------------------
(* LLMService: session operations *)

NeedWsOkIfRegistered(s) == s \in clients

\* _needWs does not throw: the session is registered and its socket OPEN
NeedWsOk(s) == s \in clients /\ up[s] = "open"

SessionUpdateFrame == [type |-> "session.update"]

AppendFrame(b64) == [type |-> "input_audio_buffer.append", audio |-> b64]

CommitFrame == [type |-> "input_audio_buffer.commit"]

ClearFrame == [type |-> "input_audio_buffer.clear"]

ResponseCreateFrame(modalities) == [type |-> "response.create", modalities |-> modalities]

ItemCreateFrame(text) == [type |-> "conversation.item.create", text |-> text]

commitAudioResponseFirst(modalities) ==
    <<ResponseCreateFrame(modalities), CommitFrame>>

\* commitAudioAndCreateResponse: the two frames it sends, in order
commitAudioAndCreateResponse(modalities) ==
    <<CommitFrame, ResponseCreateFrame(modalities)>>

\* sendTextMessage: the two frames it sends, in order
sendTextMessage(text, modalities) ==
    <<ItemCreateFrame(text), ResponseCreateFrame(modalities)>>

appendAudioChunksReversed(chunks) ==
    [k \in DOMAIN chunks |-> AppendFrame(chunks[Len(chunks) + 1 - k])]

\* for (const b64 of chunks) llmService.appendAudioChunk(sessionId, b64)
appendAudioChunks(chunks) ==
    [k \in DOMAIN chunks |-> AppendFrame(chunks[k])]

----------------------------------------------------------------------------
(* Client frames.  A binary frame is a Buffer of a given length; a text    *)
(* frame is what JSON.parse made of it: Null for unparsable or non-object  *)
(* text, else its channel and type ("" when the field is missing).         *)

BinaryFrame(len) == [bin |-> TRUE, len |-> len, msg |-> Null]

TextFrame(channel, type) ==
    [bin |-> FALSE, len |-> 0, msg |-> [json |-> "object", channel |-> channel, type |-> type]]

GarbageFrame == [bin |-> FALSE, len |-> 0, msg |-> Null]

EndFrame == TextFrame("openai:conversation", "input_audio_buffer.end")

InputTextFrame == TextFrame("openai:conversation", "input_text")

TextAudio == <<"text", "audio">>

\* Socket._handleConversation: <<frames sent upstream, envelopes for the client>>
handleConversation(c, type) ==
    CASE type = "input_audio_buffer.commit" ->
            IF NeedWsOk(c) THEN <<<<ClearFrame>>, <<>>>> ELSE <<<<>>, <<>>>>
      [] type = "input_audio_buffer.append" ->
            <<<<>>, <<ErrorEnvelope(400, "Use binary frame for audio append (PCM16).", c)>>>>
      [] type = "input_audio_buffer.end" ->
            IF NeedWsOk(c)
            THEN <<commitAudioAndCreateResponse(TextAudio), <<>>>>
            ELSE <<<<>>, <<ErrorEnvelope(500, "Commit failed", c)>>>>
      [] type = "input_text" ->
            IF NeedWsOk(c)
            THEN <<sendTextMessage("text", TextAudio), <<>>>>
            ELSE <<<<>>, <<ErrorEnvelope(500, "Text send failed", c)>>>>
      [] type = "preprompted" ->
            <<<<>>, <<Envelope("openai:conversation", "preprompted.done", 0, "", c)>>>>
      [] OTHER -> <<<<>>, <<>>>>

\* the binary branch of the message handler
handleBinary(c, raw) ==
    LET chunks == toBase64PcmChunks(raw, DefaultChunkBytes)
    IN  IF chunks.threw
        THEN <<<<>>, <<ErrorEnvelope(400, "Invalid binary audio: Invalid PCM16 buffer.", c)>>>>
        ELSE IF Len(chunks.value) = 0
        THEN <<<<>>, <<>>>>
        ELSE IF ~NeedWsOk(c)
        THEN <<<<>>, <<ErrorEnvelope(400, "Invalid binary audio: Session not found or not open", c)>>>>
        ELSE <<appendAudioChunks(chunks.value), <<>>>>

handleTextAnyChannel(c, msg) ==
    IF msg = Null
    THEN <<<<>>, <<ErrorEnvelope(400, "Invalid message format", c)>>>>
    ELSE handleConversation(c, msg.type)

\* the text branch of the message handler
handleText(c, msg) ==
    IF msg = Null
    THEN <<<<>>, <<ErrorEnvelope(400, "Invalid message format", c)>>>>
    ELSE IF msg.channel = ""
    THEN <<<<>>, <<ErrorEnvelope(400, "Missing 'channel' field", c)>>>>
    ELSE IF msg.type = "" /\ msg.channel = "openai:conversation"
    THEN <<<<>>, <<ErrorEnvelope(400, "Missing 'type' for openai:conversation", c)>>>>
    ELSE IF msg.channel = "openai:conversation"
    THEN handleConversation(c, msg.type)
    ELSE IF msg.channel = "sonju:summarize"
    THEN <<<<>>, <<Envelope("sonju:summarize", "summary.image", 0, "", c)>>>>
    ELSE IF msg.channel \in {"sonju:suggestedQuestion", "sonju:officeInfo"}
    THEN <<<<>>, <<>>>>
    ELSE <<<<>>, <<ErrorEnvelope(400, "Unknown channel", c)>>>>

----------------------------------------------------------------------------
(* Bounds on the environment *)

\* client frames sent in one run of Spec, over all connections
MaxFrames == 1
\* upstream messages delivered in one run of Spec, over all sessions
MaxUpEvents == 1
\* client frames sent in one run of AudioSpec
MaxAudioFrames == 3

RECURSIVE SumOver(_, _)
SumOver(f, S) ==
    IF S = {} THEN 0
    ELSE LET x == CHOOSE y \in S : TRUE IN f[x] + SumOver(f, S \ {x})

FramesSent == SumOver([c \in Conns |-> Len(recv[c]) + dropped[c]], Conns)

----------------------------------------------------------------------------
(* Actions of the broker *)

BrokerInit ==
    /\ client = [c \in Conns |-> "absent"]
    /\ phase = [c \in Conns |-> "none"]
    /\ up = [c \in Conns |-> "none"]
    /\ clients = {}
    /\ listeners = {}
    /\ llmHandlers = [c \in Conns |-> {}]
    /\ crashed = FALSE
    /\ clientOut = [c \in Conns |-> <<>>]
    /\ upLog = [c \in Conns |-> <<>>]
    /\ recv = [c \in Conns |-> <<>>]
    /\ dropped = [c \in Conns |-> 0]
    /\ upEvents = 0
    /\ now = Epoch
    /\ fcalls = [c \in Conns |-> NoMap]
    /\ lastToolAt = [c \in Conns |-> Undefined]
    /\ lowConfidenceCount = [c \in Conns |-> Undefined]
    /\ inflight = {}
    /\ dispatches = [c \in Conns |-> <<>>]
    /\ results = [c \in Conns |-> <<>>]
    /\ returned = [c \in Conns |-> <<>>]
    /\ arrived = [c \in Conns |-> <<>>]
    /\ doneLog = [c \in Conns |-> <<>>]
    /\ parsed = [c \in Conns |-> <<>>]
    /\ lastInstrHash = [c \in Conns |-> NoHash]
    /\ instrCalls = [c \in Conns |-> <<>>]
    /\ upSeen = [c \in Conns |-> <<>>]
    /\ orphans = [c \in Conns |-> <<>>]
    /\ opLog = [c \in Conns |-> <<>>]
    /\ isAlive = [c \in Conns |-> FALSE]
    /\ silentTicks = [c \in Conns |-> 0]
    /\ hbTerminated = [c \in Conns |-> FALSE]
    /\ pings = [c \in Conns |-> 0]
    /\ hbTicks = 0
    /\ thrown = [c \in Conns |-> <<>>]
    /\ emitted = [c \in Conns |-> 0]
    /\ feed = [c \in Conns |-> <<>>]
    /\ waiters = [c \in Conns |-> <<>>]
    /\ keepalive = [c \in Conns |-> FALSE]
    /\ kaTicks = [c \in Conns |-> 0]
    /\ upPings = [c \in Conns |-> 0]
    /\ lastPing = [c \in Conns |-> Undefined]

\* wss.on("connection"): the handler runs up to its await; createRealtimeSession
\* has created the upstream WebSocket and waits for open, error or the timeout
ClientConnect(c) ==
    /\ ~crashed
    /\ client[c] = "absent"
    /\ client' = [client EXCEPT ![c] = "open"]
    /\ phase' = [phase EXCEPT ![c] = "creating"]
    /\ up' = [up EXCEPT ![c] = "connecting"]
    /\ isAlive' = [isAlive EXCEPT ![c] = TRUE]
    /\ UNCHANGED <<clients, listeners, llmHandlers, crashed, logVars, pureVars, toolVars,
                   callVars, metaVars, silentTicks, hbTerminated, pings, hbTicks, extVars>>

\* the upstream handshake completes.  While createRealtimeSession still waits,
\* it resumes: wires the socket, sends session.update, registers the session;
\* then the connection handler subscribes its forwarders and attaches its
\* message and close handlers.  After the timeout nothing is listening.
HandshakeOpen(c) ==
    /\ ~crashed
    /\ up[c] = "connecting"
    /\ up' = [up EXCEPT ![c] = "open"]
    /\ IF phase[c] = "creating"
       THEN /\ upLog' = [upLog EXCEPT ![c] = Append(@, SessionUpdateFrame)]
            /\ clients' = clients \cup {c}
            /\ lastInstrHash' = [lastInstrHash EXCEPT ![c] = Hash(BaseInstr)]
            /\ fcalls' = [fcalls EXCEPT ![c] = EmptyMap]
            /\ keepalive' = [keepalive EXCEPT ![c] = TRUE]
            /\ lastPing' = [lastPing EXCEPT ![c] = Undefined]
            /\ listeners' = listeners \cup {<<c, e>> : e \in HandlerEvents}
            /\ llmHandlers' = [llmHandlers EXCEPT ![c] = HandlerEvents]
            /\ phase' = [phase EXCEPT ![c] = "ready"]
       ELSE UNCHANGED <<upLog, clients, lastInstrHash, fcalls, listeners, llmHandlers, phase,
                        keepalive, lastPing>>
    /\ UNCHANGED <<client, crashed, clientOut, recv, dropped, upEvents, pureVars,
                   now, lastToolAt, lowConfidenceCount, inflight, dispatches, results, returned,
                   callVars, instrCalls, upSeen, orphans, opLog, hbVars, histVars,
                   kaTicks, upPings>>

\* the 15 s timer rejects; the connection handler answers 503 and returns;
\* the upstream WebSocket is left as it is
HandshakeTimeout(c) ==
    /\ ~crashed
    /\ phase[c] = "creating"
    /\ up[c] = "connecting"
    /\ phase' = [phase EXCEPT ![c] = "failed"]
    /\ clientOut' = SendTo(clientOut, c, ErrorEnvelope(503, "Session create failed", c))
    /\ UNCHANGED <<client, up, clients, listeners, llmHandlers, crashed,
                   upLog, recv, dropped, upEvents, pureVars, toolVars, auxVars>>

\* the upstream handshake fails: ws emits error and closes
HandshakeError(c) ==
    /\ ~crashed
    /\ up[c] = "connecting"
    /\ up' = [up EXCEPT ![c] = "closed"]
    /\ IF phase[c] = "creating"
       THEN /\ phase' = [phase EXCEPT ![c] = "failed"]
            /\ clientOut' = SendTo(clientOut, c, ErrorEnvelope(503, "Session create failed", c))
       ELSE UNCHANGED <<phase, clientOut>>
    /\ UNCHANGED <<client, clients, listeners, llmHandlers, crashed,
                   upLog, recv, dropped, upEvents, pureVars, toolVars, auxVars>>

closeSessionClearingCalls(s) ==
    IF s \in clients
    THEN /\ up' = [up EXCEPT ![s] = IF @ = "open" THEN "closing" ELSE @]
         /\ clients' = clients \ {s}
         /\ lastInstrHash' = [lastInstrHash EXCEPT ![s] = NoHash]
         /\ fcalls' = [c \in Conns |-> NoMap]
         /\ lastToolAt' = [lastToolAt EXCEPT ![s] = Undefined]
         /\ lowConfidenceCount' = [lowConfidenceCount EXCEPT ![s] = Undefined]
         /\ lastPing' = [lastPing EXCEPT ![s] = Undefined]
    ELSE UNCHANGED <<up, clients, lastInstrHash, fcalls, lastToolAt, lowConfidenceCount,
                     lastPing>>

\* LLMService.closeSession
closeSession(s) ==
    IF s \in clients
    THEN /\ up' = [up EXCEPT ![s] = IF @ = "open" THEN "closing" ELSE @]
         /\ clients' = clients \ {s}
         /\ lastInstrHash' = [lastInstrHash EXCEPT ![s] = NoHash]
         /\ fcalls' = [fcalls EXCEPT ![s] = NoMap]
         /\ lastToolAt' = [lastToolAt EXCEPT ![s] = Undefined]
         /\ lowConfidenceCount' = [lowConfidenceCount EXCEPT ![s] = Undefined]
         /\ lastPing' = [lastPing EXCEPT ![s] = Undefined]
    ELSE UNCHANGED <<up, clients, lastInstrHash, fcalls, lastToolAt, lowConfidenceCount,
                     lastPing>>

\* the client socket closes.  ws.on("close") exists only once the connection
\* handler has passed its await: _cleanupLLMForwarding, then closeSession
ClientClose(c) ==
    /\ ~crashed
    /\ client[c] = "open"
    /\ client' = [client EXCEPT ![c] = "closed"]
    /\ IF phase[c] = "ready"
       THEN /\ listeners' = listeners \ {<<c, e>> : e \in llmHandlers[c]}
            /\ llmHandlers' = [llmHandlers EXCEPT ![c] = {}]
            /\ closeSession(c)
       ELSE UNCHANGED <<listeners, llmHandlers, up, clients, lastInstrHash, fcalls,
                        lastToolAt, lowConfidenceCount, lastPing>>
    /\ UNCHANGED <<phase, crashed, logVars, pureVars, now, inflight, dispatches, results, returned,
                   callVars, instrCalls, upSeen, orphans, opLog, hbVars, histVars,
                   keepalive, kaTicks, upPings>>

messageHandlerAttachedOnAccept(c) == phase[c] \in {"creating", "ready"}

\* ws.on("message") is reached only after the await of createRealtimeSession
\* has returned and _setupLLMForwarding has run
messageHandlerAttached(c) == phase[c] = "ready"

\* a client frame arrives
ClientMessage(c, f) ==
    /\ ~crashed
    /\ client[c] = "open"
    /\ IF messageHandlerAttached(c)
       THEN LET raw == OpaqueBuffer(<<c, Len(recv[c]) + 1>>, f.len)
                res == IF f.bin THEN handleBinary(c, raw) ELSE handleText(c, f.msg)
            IN  /\ recv' = [recv EXCEPT ![c] = Append(@, f)]
                /\ upLog' = [upLog EXCEPT ![c] = @ \o res[1]]
                /\ clientOut' = [clientOut EXCEPT ![c] = @ \o res[2]]
                /\ UNCHANGED dropped
       ELSE /\ dropped' = [dropped EXCEPT ![c] = @ + 1]
            /\ UNCHANGED <<recv, upLog, clientOut>>
    /\ UNCHANGED <<connVars, upEvents, pureVars, toolVars, auxVars>>

\* the bus event of an upstream stream message type
StreamEventOf(type) ==
    CASE type = "response.text.delta" -> "text_delta"
      [] type = "response.text.done" -> "text_done"
      [] type = "response.audio.delta" -> "audio_delta"
      [] type = "response.audio.done" -> "audio_done"
      [] type = "response.audio_transcript.delta" -> "audio_transcript_delta"
      [] type = "response.audio_transcript.done" -> "audio_transcript_done"
      [] type \in {"error", "response.error"} -> "error"
      [] type = "response.done" -> "response_done"
      [] type = "session.created" -> "session_created"
      [] type = "session.updated" -> "session_updated"

StreamTypes ==
    {"response.text.delta", "response.text.done", "response.audio.delta",
     "response.audio.done", "response.audio_transcript.delta",
     "response.audio_transcript.done", "error", "response.error",
     "response.done", "session.created", "session.updated"}

\* the message listeners one sendTextMessageWithResponse call attaches
AwaitListeners == {"onDelta", "onDone", "onErrorEvt"}

listenersAfterSettleKeepsDelta == {"onDelta"}

\* ws.off("message", onDelta); ws.off("message", onDone); ws.off("message", onErrorEvt)
listenersAfterSettle == {}

\* a call that has just attached its listeners; `start` is the number of
\* upstream messages the session had received before the call
NewWaiter(start) ==
    [threw |-> FALSE, attached |-> AwaitListeners, acc |-> <<>>, state |-> "pending",
     text |-> <<>>, settles |-> 0, start |-> start, at |-> 0]

\* a call whose _needWs threw
ThrownWaiter(start) ==
    [threw |-> TRUE, attached |-> {}, acc |-> <<>>, state |-> "threw",
     text |-> <<>>, settles |-> 0, start |-> start, at |-> 0]

\* resolve / reject: only the first call settles the promise
Settle(w, state, pos) ==
    [w EXCEPT !.attached = listenersAfterSettle,
              !.settles = @ + 1,
              !.state = IF w.state = "pending" THEN state ELSE @,
              !.text = IF w.state = "pending" /\ state = "resolved" THEN w.acc ELSE @,
              !.at = IF w.state = "pending" THEN pos ELSE @]

\* onDelta, onDone and onErrorEvt of one call on an upstream message; pos is
\* the position of the message among those the session received
WaiterOnMessage(w, type, delta, pos) ==
    IF type = "response.text.delta" /\ "onDelta" \in w.attached
    THEN [w EXCEPT !.acc = Append(@, delta)]
    ELSE IF type = "response.done" /\ "onDone" \in w.attached
    THEN Settle(w, "resolved", pos)
    ELSE IF type \in {"error", "response.error"} /\ "onErrorEvt" \in w.attached
    THEN Settle(w, "rejected", pos)
    ELSE w

\* ws.on("message") of _wireServerEvents, for the message types that are
\* re-emitted on the bus; the listeners of pending sendTextMessageWithResponse
\* calls see the same message; index and delta are data.output_index and data.delta
UpstreamData(s, type, index, delta) ==
    /\ ~crashed
    /\ phase[s] = "ready"
    /\ up[s] \in {"open", "closing"}
    /\ upEvents' = upEvents + 1
    /\ upSeen' = [upSeen EXCEPT ![s] = Append(@, type)]
    /\ feed' = [feed EXCEPT ![s] =
           Append(@, [type |-> type, output_index |-> index, delta |-> delta,
                      open |-> client[s] = "open"])]
    /\ emitted' = [emitted EXCEPT ![s] = @ + 1]
    /\ waiters' = [waiters EXCEPT ![s] =
           [k \in DOMAIN @ |-> WaiterOnMessage(@[k], type, delta, Len(feed[s]) + 1)]]
    /\ LET event == StreamEventOf(type)
           payload == [sessionId |-> s, delta |-> delta, code |-> 1011, output_index |-> index]
       IN  IF EmitThrows(event)
           THEN /\ crashed' = TRUE
                /\ UNCHANGED clientOut
           ELSE /\ clientOut' = Emit(clientOut, event, payload)
                /\ UNCHANGED crashed
    /\ UNCHANGED <<client, phase, up, clients, listeners, llmHandlers,
                   upLog, recv, dropped, pureVars, toolVars,
                   callVars, lastInstrHash, instrCalls, orphans, opLog, hbVars, thrown, kaVars>>

\* an upstream message whose payload does not matter
UpstreamMessage(s, type) == UpstreamData(s, type, 0, "d")

\* ws.on("close") of the upstream socket (wired only after a successful
\* handshake): the "closed" event goes out on the bus
UpstreamClosed(s) ==
    /\ ~crashed
    /\ up[s] \in {"open", "closing"}
    /\ up' = [up EXCEPT ![s] = "closed"]
    /\ keepalive' = [keepalive EXCEPT ![s] = FALSE]
    /\ IF phase[s] = "ready"
       THEN /\ clientOut' = Emit(clientOut, "closed", [sessionId |-> s, delta |-> "", code |-> 1011, output_index |-> Undefined])
            /\ emitted' = [emitted EXCEPT ![s] = @ + 1]
       ELSE UNCHANGED <<clientOut, emitted>>
    /\ UNCHANGED <<client, phase, clients, listeners, llmHandlers, crashed,
                   upLog, recv, dropped, upEvents, pureVars, toolVars,
                   callVars, metaVars, hbVars, thrown, feed, waiters,
                   kaTicks, upPings, lastPing>>

\* ws.on("error") of the upstream socket: ws moves to CLOSING and raises error
UpstreamSocketError(s) ==
    /\ ~crashed
    /\ up[s] = "open"
    /\ phase[s] = "ready"
    /\ up' = [up EXCEPT ![s] = "closing"]
    /\ IF EmitThrows("error")
       THEN /\ crashed' = TRUE
            /\ UNCHANGED clientOut
       ELSE /\ clientOut' = Emit(clientOut, "error", [sessionId |-> s, delta |-> "", code |-> 1011, output_index |-> Undefined])
            /\ UNCHANGED crashed
    /\ emitted' = [emitted EXCEPT ![s] = @ + 1]
    /\ UNCHANGED <<client, phase, clients, listeners, llmHandlers,
                   upLog, recv, dropped, upEvents, pureVars, toolVars,
                   callVars, metaVars, hbVars, thrown, feed, waiters, kaVars>>

\* LLMService.sendTextMessageWithResponse up to the return of its promise
SendTextAwait(s) ==
    /\ ~crashed
    /\ IF NeedWsOk(s)
       THEN /\ waiters' = [waiters EXCEPT ![s] = Append(@, NewWaiter(Len(feed[s])))]
            /\ upLog' = [upLog EXCEPT ![s] = @ \o sendTextMessage("text", <<"text">>)]
       ELSE /\ waiters' = [waiters EXCEPT ![s] = Append(@, ThrownWaiter(Len(feed[s])))]
            /\ UNCHANGED upLog
    /\ UNCHANGED <<connVars, clientOut, recv, dropped, upEvents, pureVars, toolVars,
                   callVars, metaVars, hbVars, thrown, emitted, feed, kaVars>>

pingsWhenOpenAlways(s) == TRUE

\* if (ws.readyState === WebSocket.OPEN)
pingsWhenOpen(s) == up[s] = "open"

\* the keepalive interval of createRealtimeSession fires: while the socket is
\* OPEN it pings and stamps lastPing on the session's metadata
KeepaliveTick(s) ==
    /\ ~crashed
    /\ keepalive[s]
    /\ kaTicks' = [kaTicks EXCEPT ![s] = @ + 1]
    /\ IF pingsWhenOpen(s)
       THEN /\ upPings' = [upPings EXCEPT ![s] = @ + 1]
            /\ lastPing' = [lastPing EXCEPT ![s] = now]
       ELSE UNCHANGED <<upPings, lastPing>>
    /\ UNCHANGED <<connVars, logVars, pureVars, toolVars, callVars, metaVars, hbVars,
                   histVars, keepalive>>

----------------------------------------------------------------------------
(* Socket._bind: the client heartbeat *)

\* ws.on("pong", heartbeat): this.isAlive = true
Pong(c) ==
    /\ ~crashed
    /\ client[c] = "open"
    /\ isAlive' = [isAlive EXCEPT ![c] = TRUE]
    /\ silentTicks' = [silentTicks EXCEPT ![c] = 0]
    /\ UNCHANGED <<connVars, logVars, pureVars, toolVars, callVars, metaVars,
                   hbTerminated, pings, hbTicks, extVars>>

missedPingNever(c) == FALSE

\* ws.isAlive === false
missedPing(c) == ~isAlive[c]

\* the sockets of wss.clients
Tracked == {c \in Conns : client[c] = "open"}

\* the 30 s interval: every tracked socket that is not alive is terminated,
\* every other one is marked not alive and pinged.  A terminated socket
\* emits close, which runs the connection's close handler when it has one
\* (_cleanupLLMForwarding, closeSession)
HeartbeatTick ==
    /\ ~crashed
    /\ LET dead == {c \in Tracked : missedPing(c)}
           handled == {c \in dead : phase[c] = "ready"}
           closing == handled \cap clients
       IN  /\ client' = [c \in Conns |-> IF c \in dead THEN "closed" ELSE client[c]]
           /\ hbTerminated' = [c \in Conns |-> hbTerminated[c] \/ c \in dead]
           /\ isAlive' = [c \in Conns |-> IF c \in Tracked \ dead THEN FALSE ELSE isAlive[c]]
           /\ pings' = [c \in Conns |-> IF c \in Tracked \ dead THEN pings[c] + 1 ELSE pings[c]]
           /\ silentTicks' = [c \in Conns |->
                  IF c \in Tracked \ dead THEN silentTicks[c] + 1 ELSE silentTicks[c]]
           /\ listeners' = listeners \ {<<c, e>> : c \in handled, e \in HandlerEvents}
           /\ llmHandlers' = [c \in Conns |-> IF c \in handled THEN {} ELSE llmHandlers[c]]
           /\ up' = [c \in Conns |->
                  IF c \in closing /\ up[c] = "open" THEN "closing" ELSE up[c]]
           /\ clients' = clients \ closing
           /\ lastInstrHash' = [c \in Conns |-> IF c \in closing THEN NoHash ELSE lastInstrHash[c]]
           /\ fcalls' = [c \in Conns |-> IF c \in closing THEN NoMap ELSE fcalls[c]]
           /\ lastToolAt' = [c \in Conns |-> IF c \in closing THEN Undefined ELSE lastToolAt[c]]
           /\ lowConfidenceCount' =
                  [c \in Conns |-> IF c \in closing THEN Undefined ELSE lowConfidenceCount[c]]
           /\ lastPing' = [c \in Conns |-> IF c \in closing THEN Undefined ELSE lastPing[c]]
    /\ hbTicks' = hbTicks + 1
    /\ UNCHANGED <<phase, crashed, logVars, pureVars, now, inflight, dispatches, results, returned,
                   callVars, instrCalls, upSeen, orphans, opLog, histVars,
                   keepalive, kaTicks, upPings>>

----------------------------------------------------------------------------
(* LLMService: the session operations as called by any client of the       *)
(* service, on any session id                                              *)

SessionOps ==
    {"sendTextMessage", "sendTextMessageWithResponse", "appendAudioChunk",
     "commitAudioAndCreateResponse", "clearAudioBuffer"}

\* the frames an operation sends once _needWs has returned the socket
OpFrames(op) ==
    CASE op = "sendTextMessage" -> sendTextMessage("text", <<"text">>)
      [] op = "sendTextMessageWithResponse" -> sendTextMessage("text", <<"text">>)
      [] op = "appendAudioChunk" -> <<AppendFrame("b64")>>
      [] op = "commitAudioAndCreateResponse" -> commitAudioAndCreateResponse(<<"text">>)
      [] op = "clearAudioBuffer" -> <<ClearFrame>>

\* every operation starts with _needWs, which throws unless the session is
\* registered and its socket OPEN; nothing changes between _needWs and the
\* _send calls, which therefore succeed
SessionOpResult(s, op) ==
    IF NeedWsOk(s) THEN Returned(OpFrames(op)) ELSE Threw("Session not found or not open")

SessionOp(s, op) ==
    /\ ~crashed
    /\ LET res == SessionOpResult(s, op)
       IN  /\ upLog' = IF res.threw THEN upLog ELSE [upLog EXCEPT ![s] = @ \o res.value]
           /\ opLog' = [opLog EXCEPT ![s] =
                  Append(@, [op |-> op, up |-> up[s], reg |-> s \in clients, res |-> res,
                             frames |-> Len(upLog'[s]) - Len(upLog[s])])]
    /\ UNCHANGED <<connVars, clientOut, recv, dropped, upEvents, pureVars, toolVars,
                   callVars, lastInstrHash, instrCalls, upSeen, orphans, hbVars, extVars>>

\* closeSession called by any client of the service, on any session id; the
\* try around ws.close() and the deletes leave nothing that can throw
CloseSessionCall(s) ==
    /\ ~crashed
    /\ closeSession(s)
    /\ opLog' = [opLog EXCEPT ![s] =
           Append(@, [op |-> "closeSession", up |-> up[s], reg |-> s \in clients,
                      res |-> Returned(<<>>), frames |-> 0])]
    /\ UNCHANGED <<client, phase, listeners, llmHandlers, crashed, logVars, pureVars, now,
                   inflight, dispatches, results, returned, callVars, instrCalls, upSeen,
                   orphans, hbVars, histVars, keepalive, kaTicks, upPings>>

----------------------------------------------------------------------------
(* LLMService.createRealtimeSession called with a session id that is       *)
(* already registered (genId is a timestamp and six random characters; the *)
(* service itself takes any id)                                            *)

\* the second call's socket has opened: it is wired, session.update is sent
\* on it, and clients, meta and fcalls are set for the id without a look at
\* what they hold; the socket registered before stays as it is
CreateSessionAgain(s) ==
    /\ ~crashed
    /\ s \in clients
    /\ orphans' = [orphans EXCEPT ![s] =
           Append(@, [up |-> up[s], sent |-> upLog[s], pending |-> fcalls[s],
                      hash |-> lastInstrHash[s]])]
    /\ up' = [up EXCEPT ![s] = "open"]
    /\ upLog' = [upLog EXCEPT ![s] = <<SessionUpdateFrame>>]
    /\ lastInstrHash' = [lastInstrHash EXCEPT ![s] = Hash(BaseInstr)]
    /\ fcalls' = [fcalls EXCEPT ![s] = EmptyMap]
    /\ keepalive' = [keepalive EXCEPT ![s] = TRUE]
    /\ lastPing' = [lastPing EXCEPT ![s] = Undefined]
    /\ UNCHANGED <<client, phase, clients, listeners, llmHandlers, crashed, clientOut, recv,
                   dropped, upEvents, pureVars, now, lastToolAt, lowConfidenceCount,
                   inflight, dispatches, results, returned, callVars, instrCalls, upSeen, opLog, hbVars,
                   histVars, kaTicks, upPings>>

----------------------------------------------------------------------------
(* LLMService._maybeUpdateInstructions *)

instructionsChangedAlways(s, instr) ==
    TRUE

\* m.lastInstrHash !== newHash, with m = this.meta.get(sessionId) || {}
instructionsChanged(s, instr) ==
    lastInstrHash[s] # Hash(instr)

\* _maybeUpdateInstructions(ws, sessionId, newInstr) on the socket that was
\* registered for the session: when the hash differs, _send (which throws
\* unless the socket is OPEN) and then record the new hash
MaybeUpdateInstructions(s, instr) ==
    /\ ~crashed
    /\ phase[s] = "ready"
    /\ LET outcome == IF ~instructionsChanged(s, instr) THEN "suppressed"
                      ELSE IF up[s] # "open" THEN "threw"
                      ELSE "sent"
       IN  /\ upLog' = IF outcome = "sent"
                       THEN [upLog EXCEPT ![s] = Append(@, InstructionsFrame(instr))]
                       ELSE upLog
           /\ lastInstrHash' = IF outcome = "sent"
                               THEN [lastInstrHash EXCEPT ![s] = Hash(instr)]
                               ELSE lastInstrHash
           /\ instrCalls' = [instrCalls EXCEPT ![s] =
                  Append(@, [instr |-> instr, outcome |-> outcome, open |-> up[s] = "open",
                             before |-> lastInstrHash[s], after |-> lastInstrHash'[s],
                             frames |-> Len(upLog'[s]) - Len(upLog[s])])]
    /\ UNCHANGED <<connVars, clientOut, recv, dropped, upEvents, pureVars, toolVars,
                   callVars, upSeen, orphans, opLog, hbVars, extVars>>

----------------------------------------------------------------------------
(* Tool executor (LLMService._wireServerEvents, _handleToolCall) *)

ToolOutput(id, out) == [type |-> "tool.output", tool_call_id |-> id, output |-> out]

\* _send from within the tool-call handler.  When the socket is not OPEN
\* _send throws; the catch of the message handler calls _send again, which
\* throws out of the async handler
SendToolOutput(s, frame) ==
    IF up[s] = "open"
    THEN /\ upLog' = [upLog EXCEPT ![s] = Append(@, frame)]
         /\ UNCHANGED crashed
    ELSE /\ crashed' = TRUE
         /\ UNCHANGED upLog

rateLimitedIgnoresLast(s) ==
    now - 0 < minToolIntervalMs

\* Date.now() - (this.lastToolAt.get(sessionId) || 0) < this.minToolIntervalMs
rateLimited(s) ==
    now - OrZero(lastToolAt[s]) < minToolIntervalMs

provisionalThresholdMin(threshold) == Min(threshold, ProvisionalThreshold)

\* threshold: Math.max(threshold, 0.4)
provisionalThreshold(threshold) == Max(threshold, ProvisionalThreshold)

\* the retrieval options of a call
RetrievalCall(s, id, args) ==
    LET mode == IF args.mode = "provisional" THEN "provisional" ELSE "final"
        topK == IF args.topK = Undefined THEN DefaultTopK ELSE args.topK
        threshold == IF args.threshold = Undefined THEN DefaultThreshold ELSE args.threshold
    IN  [s |-> s, id |-> id, mode |-> mode, threshold |-> threshold,
         optTopK |-> IF mode = "provisional" THEN Min(topK, 1) ELSE topK,
         optThreshold |-> IF mode = "provisional"
                          THEN provisionalThreshold(threshold) ELSE threshold]

\* how _handleToolCall answers before any await
DispatchOutcome(s, name, args) ==
    IF rateLimited(s) THEN "skipped"
    ELSE IF name # "rag_search" THEN "unknown tool"
    ELSE IF args.query = "" THEN "empty query"
    ELSE "retrieval"

functionCallEventsAsText(type) == <<"text_delta">>

\* the feed events the arguments.delta and arguments.done branches emit:
\* both end in `return` without a call of _emit
functionCallEvents(type) == <<>>

\* the bus after the feed events of a function-call message of session s
AfterFunctionCall(out, s, type) ==
    LET events == functionCallEvents(type)
    IN  IF events = <<>> THEN out
        ELSE Emit(out, events[1], [sessionId |-> s, delta |-> "d", code |-> 1011, output_index |-> 0])

\* the payloads of the deltas of one call_id, in arrival order
DeltasOf(log, id) ==
    LET mine == SelectSeq(log, LAMBDA a : a.id = id)
    IN  [k \in DOMAIN mine |-> mine[k].delta]

\* prev.args += data.delta || ""
appendDelta(args, delta) ==
    Append(args, delta)

\* response.function_call.arguments.delta
ArgsDelta(s, id, name, delta) ==
    /\ ~crashed
    /\ phase[s] = "ready"
    /\ up[s] \in {"open", "closing"}
    /\ LET prev == IF PendingCall(s, id) = Null
                   THEN [name |-> name, args |-> <<>>]
                   ELSE PendingCall(s, id)
       IN  fcalls' = [fcalls EXCEPT ![s] =
               WithCall(s, id, [prev EXCEPT !.args = appendDelta(@, delta)])]
    /\ arrived' = [arrived EXCEPT ![s] = Append(@, [id |-> id, delta |-> delta])]
    /\ clientOut' = AfterFunctionCall(clientOut, s, "response.function_call.arguments.delta")
    /\ emitted' = [emitted EXCEPT ![s] =
           @ + Len(functionCallEvents("response.function_call.arguments.delta"))]
    /\ UNCHANGED <<connVars, upLog, recv, dropped, upEvents, pureVars, now, lastToolAt,
                   lowConfidenceCount, inflight, dispatches, results, returned, doneLog, parsed,
                   metaVars, hbVars, thrown, feed, waiters, kaVars>>

\* response.function_call.arguments.done: parse, drop the pending entry and
\* run _handleToolCall up to its await (or to its return)
ArgsDone(s, id) ==
    /\ ~crashed
    /\ phase[s] = "ready"
    /\ up[s] \in {"open", "closing"}
    /\ doneLog' = [doneLog EXCEPT ![s] =
           Append(@, [id |-> id, open |-> up[s] = "open",
                      found |-> PendingCall(s, id) # Null])]
    /\ arrived' = [arrived EXCEPT ![s] = SelectSeq(@, LAMBDA a : a.id # id)]
    /\ IF PendingCall(s, id) = Null
       THEN UNCHANGED <<fcalls, lastToolAt, inflight, dispatches, upLog, crashed>>
       ELSE LET info == PendingCall(s, id)
                args == ParseArgs(info.args)
                outcome == DispatchOutcome(s, info.name, args)
            IN  /\ fcalls' = [fcalls EXCEPT ![s] = WithoutCall(s, id)]
                /\ dispatches' = [dispatches EXCEPT ![s] =
                       Append(@, [t |-> now, id |-> id, outcome |-> outcome,
                                  reg |-> s \in clients])]
                /\ lastToolAt' = IF outcome = "skipped" THEN lastToolAt
                                 ELSE [lastToolAt EXCEPT ![s] = now]
                /\ CASE outcome = "skipped" ->
                            /\ SendToolOutput(s, ToolOutput(id,
                                   [skipped |-> TRUE, reason |-> "rate_limited"]))
                            /\ UNCHANGED inflight
                     [] outcome = "unknown tool" ->
                            /\ SendToolOutput(s, ToolOutput(id, [error |-> "unknown tool"]))
                            /\ UNCHANGED inflight
                     [] outcome = "empty query" ->
                            /\ SendToolOutput(s, ToolOutput(id, [error |-> "empty query"]))
                            /\ UNCHANGED inflight
                     [] outcome = "retrieval" ->
                            /\ inflight' = inflight \cup {RetrievalCall(s, id, args)}
                            /\ UNCHANGED <<upLog, crashed>>
    /\ clientOut' = AfterFunctionCall(clientOut, s, "response.function_call.arguments.done")
    /\ emitted' = [emitted EXCEPT ![s] =
           @ + Len(functionCallEvents("response.function_call.arguments.done"))]
    /\ UNCHANGED <<client, phase, up, clients, listeners, llmHandlers, recv,
                   dropped, upEvents, pureVars, now, lowConfidenceCount, results, returned,
                   metaVars, hbVars, thrown, feed, waiters, kaVars>>

\* what the done message of call id parses, next to the payloads of the
\* deltas that arrived for it; recorded by the specifications that examine it
ObserveParse(s, id) ==
    parsed' = [parsed EXCEPT ![s] =
        Append(@, [id |-> id, found |-> PendingCall(s, id) # Null,
                   text |-> IF PendingCall(s, id) = Null THEN <<>> ELSE PendingCall(s, id).args,
                   deltas |-> DeltasOf(arrived[s], id)])]

\* results sorted by score, highest first (Array.prototype.sort is stable)
RECURSIVE SortDesc(_)
SortDesc(scores) ==
    IF Len(scores) <= 1 THEN scores
    ELSE LET rest == SortDesc(Tail(scores))
             before == SelectSeq(rest, LAMBDA x : x > Head(scores))
             after == SelectSeq(rest, LAMBDA x : x <= Head(scores))
         IN  before \o <<Head(scores)>> \o after

\* ragService.searchVectorDB on what the model endpoint returned (a list of
\* scores): at most topK snippets, filtered by the threshold, sorted
searchVectorDB(raw, topK, threshold) ==
    SortDesc(SelectSeq(SubSeq(raw, 1, Min(topK, Len(raw))), LAMBDA x : x >= threshold))

lowConfidenceMessageLate(newCount) ==
    IF newCount > EscalateFrom THEN EscalationMessage ELSE RetryMessage

\* the context of a low-confidence tool.output
lowConfidenceMessage(newCount) ==
    IF newCount >= EscalateFrom THEN EscalationMessage ELSE RetryMessage

\* _handleToolCall resumes with the retrieval result
RetrievalReturns(call, raw) ==
    /\ ~crashed
    /\ call \in inflight
    /\ inflight' = inflight \ {call}
    /\ LET found == searchVectorDB(raw, call.optTopK, call.optThreshold)
           low == Len(found) = 0 \/ found[1] < call.threshold
           newCount == OrZero(lowConfidenceCount[call.s]) + 1
       IN  /\ returned' = [returned EXCEPT ![call.s] =
                   Append(@, [id |-> call.id, found |-> found])]
           /\ IF low
              THEN /\ lowConfidenceCount' = [lowConfidenceCount EXCEPT ![call.s] = newCount]
                   /\ results' = [results EXCEPT ![call.s] = Append(@, "low")]
                   /\ SendToolOutput(call.s, ToolOutput(call.id,
                          [context |-> lowConfidenceMessage(newCount), sources |-> <<>>,
                           count |-> 0, mode |-> call.mode, lowConfidence |-> TRUE,
                           lowConfidenceCount |-> newCount]))
              ELSE /\ lowConfidenceCount' = [lowConfidenceCount EXCEPT ![call.s] = 0]
                   /\ results' = [results EXCEPT ![call.s] = Append(@, "ok")]
                   /\ SendToolOutput(call.s, ToolOutput(call.id,
                          [context |-> found, sources |-> found,
                           count |-> Len(found), mode |-> call.mode]))
    /\ UNCHANGED <<client, phase, up, clients, listeners, llmHandlers, clientOut, recv,
                   dropped, upEvents, pureVars, now, fcalls, lastToolAt, dispatches, auxVars>>

catchOutputWithoutError(id) ==
    ToolOutput(id, [context |-> "", sources |-> <<>>])

\* the catch around _handleToolCall: output: JSON.stringify({ error: String(err) })
catchOutput(id) ==
    ToolOutput(id, [error |-> "Error: retrieval failed"])

\* ragService.searchVectorDB rejects: the catch of the message handler sends
\* the error as tool.output
RetrievalThrows(call) ==
    /\ ~crashed
    /\ call \in inflight
    /\ inflight' = inflight \ {call}
    /\ SendToolOutput(call.s, catchOutput(call.id))
    /\ thrown' = [thrown EXCEPT ![call.s] =
           Append(@, [id |-> call.id, open |-> up[call.s] = "open"])]
    /\ UNCHANGED <<client, phase, up, clients, listeners, llmHandlers, clientOut, recv,
                   dropped, upEvents, pureVars, now, fcalls, lastToolAt,
                   lowConfidenceCount, dispatches, results, returned, callVars, metaVars, hbVars,
                   emitted, feed, waiters, kaVars>>

\* time passes
Tick(d) ==
    /\ ~crashed
    /\ now' = now + d
    /\ UNCHANGED <<connVars, logVars, pureVars, fcalls, lastToolAt, lowConfidenceCount,
                   inflight, dispatches, results, returned, auxVars>>

----------------------------------------------------------------------------
(* RAGService: the retrieval client.  A text is the sequence of its        *)
(* characters; a score is a percentage, or not a number at all.            *)

\* "\n...[truncated]"
TruncationMarker == <<10, 46, 46, 46, 91, 116, 114, 117, 110, 99, 97, 116, 101, 100, 93>>

\* if (!s) return ""; return s.length > max ? s.slice(0, max) + marker : s
truncate(s, max) ==
    IF s = <<>> THEN <<>>
    ELSE IF Len(s) > max THEN SubSeq(s, 1, max) \o TruncationMarker
    ELSE s

NumberScore(v) == [num |-> TRUE, value |-> v]

\* a score the model wrote as something that is not a number
NotANumber == [num |-> FALSE, value |-> 0]

\* typeof item.score === "number" ? item.score : 0
scoreOf(item) == IF item.score.num THEN item.score.value ELSE 0

\* parsed.slice(0, topK).map(item => ({ content, score, metadata }))
snippetsOfParsed(items, topK, maxChars) ==
    [k \in 1..Min(topK, Len(items)) |->
        [content |-> truncate(items[k].text, maxChars),
         score |-> scoreOf(items[k]),
         file_id |-> items[k].file_id]]

\* the first occurrence of every file_id|content key
RECURSIVE uniqueHits(_, _)
uniqueHits(hits, seen) ==
    IF hits = <<>> THEN <<>>
    ELSE LET key == <<Head(hits).file_id, Head(hits).content>>
         IN  IF key \in seen
             THEN uniqueHits(Tail(hits), seen)
             ELSE <<Head(hits)>> \o uniqueHits(Tail(hits), seen \cup {key})

\* the file_citation annotations of the response, as snippets of score 0
snippetsOfCitations(citations, topK, maxChars) ==
    LET hits == [k \in DOMAIN citations |->
                    [content |-> truncate(citations[k].quote, maxChars),
                     score |-> 0,
                     file_id |-> citations[k].file_id]]
        uniq == uniqueHits(hits, {})
    IN  SubSeq(uniq, 1, Min(topK, Len(uniq)))

\* RAGService.semanticSearch on the model response: the parsed JSON array
\* when there is one, else the citations
semanticSearch(resp, topK, maxChars) ==
    IF resp.parsed # <<>>
    THEN snippetsOfParsed(resp.parsed, topK, maxChars)
    ELSE snippetsOfCitations(resp.citations, topK, maxChars)

passesThresholdAlways(r, threshold) == TRUE

\* (typeof r.score === "number" ? r.score : 0) >= threshold
passesThreshold(r, threshold) == r.score >= threshold

\* snippets sorted by (b.score ?? 0) - (a.score ?? 0); the sort is stable
RECURSIVE sortByScore(_)
sortByScore(snips) ==
    IF Len(snips) <= 1 THEN snips
    ELSE LET rest == sortByScore(Tail(snips))
             before == SelectSeq(rest, LAMBDA x : x.score > Head(snips).score)
             after == SelectSeq(rest, LAMBDA x : x.score <= Head(snips).score)
         IN  before \o <<Head(snips)>> \o after

\* RAGService.searchVectorDB, snippets and all
searchSnippets(resp, topK, threshold, maxChars) ==
    sortByScore(SelectSeq(semanticSearch(resp, topK, maxChars),
                          LAMBDA r : passesThreshold(r, threshold)))

RagIdle ==
    /\ ragIn = [resp |-> [parsed |-> <<>>, citations |-> <<>>],
                topK |-> 0, threshold |-> 0, maxChars |-> 0]
    /\ ragOut = NotCalled

----------------------------------------------------------------------------
(* VoiceSocketHandler: the legacy handler of /voice.  CREATE_SESSION       *)
(* carries the session id; every message runs in its own async handler     *)

\* the CREATE_SESSION requests of a run
VoiceRequests == {"r1", "r2", "r3"}

\* the session ids they carry
VoiceIds == {"v1", "v2"}

\* no entry, no session id
None == "none"

NoRequest == [id |-> None, at |-> "idle"]

VoiceIdle ==
    /\ voiceClients = [id \in VoiceIds |-> None]
    /\ voiceRequests = [r \in VoiceRequests |-> NoRequest]
    /\ voiceOpened = [id \in VoiceIds |-> 0]

\* if (this.clients.has(sessionId)) throw new Error(`Session ... already exists`)
existsCheck(id) == voiceClients[id] # None

\* handleCreateSession up to its await: the check of this.clients, then the
\* call of llmService.createRealtimeSession, which opens an upstream socket
VoiceCreateSession(r, id) ==
    /\ voiceRequests[r].at = "idle"
    /\ voiceRequests' = [voiceRequests EXCEPT ![r] =
           [id |-> id, at |-> IF existsCheck(id) THEN "already exists" ELSE "opening"]]
    /\ UNCHANGED <<voiceClients, voiceOpened, framerVars, ragVars, brokerVars>>

\* the upstream socket of request r opens: createRealtimeSession registers it
\* under the id, handleCreateSession resumes, registers the client under the
\* id and answers SESSION_CREATED
VoiceSessionOpens(r) ==
    /\ voiceRequests[r].at = "opening"
    /\ LET id == voiceRequests[r].id
       IN  /\ voiceOpened' = [voiceOpened EXCEPT ![id] = @ + 1]
           /\ voiceClients' = [voiceClients EXCEPT ![id] = r]
    /\ voiceRequests' = [voiceRequests EXCEPT ![r].at = "created"]
    /\ UNCHANGED <<framerVars, ragVars, brokerVars>>

\* the upstream socket of request r fails to open, or the 15 s timer fires:
\* createRealtimeSession rejects and the request is answered with the error
VoiceSessionFails(r) ==
    /\ voiceRequests[r].at = "opening"
    /\ voiceRequests' = [voiceRequests EXCEPT ![r].at = "open failed"]
    /\ UNCHANGED <<voiceClients, voiceOpened, framerVars, ragVars, brokerVars>>

VoiceNext ==
    \E r \in VoiceRequests :
        \/ \E id \in VoiceIds : VoiceCreateSession(r, id)
        \/ VoiceSessionOpens(r)
        \/ VoiceSessionFails(r)

----------------------------------------------------------------------------
(* FramerSpec: the framer applied to every buffer of at most MaxBufLen     *)
(* bytes over ByteValues, with explicit and default chunk sizes.           *)

ByteValues == {0, 77, 255}

ByteSeqs == UNION {[1..n -> ByteValues] : n \in 0..MaxBufLen}

ChunkArgs == (1..MaxChunkArg) \cup {DefaultChunkBytes}

FramerInit ==
    /\ input \in {BytesBuffer(s) : s \in ByteSeqs}
    /\ chunkBytes \in ChunkArgs
    /\ framerOut = NotCalled
    /\ chunkOut = NotCalled
    /\ RagIdle
    /\ VoiceIdle
    /\ BrokerInit

CallToBase64PcmChunks ==
    /\ ~framerOut.called
    /\ framerOut' = toBase64PcmChunks(input, chunkBytes)
    /\ UNCHANGED <<input, chunkBytes, chunkOut, ragVars, voiceVars, brokerVars>>

CallChunkBuffer ==
    /\ ~chunkOut.called
    /\ chunkOut' = Returned(chunkBuffer(input, chunkBytes))
    /\ UNCHANGED <<input, chunkBytes, framerOut, ragVars, voiceVars, brokerVars>>

FramerNext ==
    \/ CallToBase64PcmChunks
    \/ CallChunkBuffer

FramerSpec == FramerInit /\ [][FramerNext]_vars

----------------------------------------------------------------------------
(* Spec: two client connections, their upstream sockets and the event bus  *)

FramerIdle ==
    /\ input = BytesBuffer(<<>>)
    /\ chunkBytes = DefaultChunkBytes
    /\ framerOut = NotCalled
    /\ chunkOut = NotCalled

Init == BrokerInit /\ FramerIdle /\ RagIdle /\ VoiceIdle

BrokerFrames == {InputTextFrame, BinaryFrame(2), GarbageFrame}

BrokerStreamTypes == {"response.text.delta", "error"}

Next ==
    \E c \in Conns :
        \/ ClientConnect(c)
        \/ HandshakeOpen(c)
        \/ HandshakeTimeout(c)
        \/ HandshakeError(c)
        \/ ClientClose(c)
        \/ \E f \in BrokerFrames : FramesSent < MaxFrames /\ ClientMessage(c, f)
        \/ \E t \in BrokerStreamTypes : upEvents < MaxUpEvents /\ UpstreamMessage(c, t)
        \/ UpstreamClosed(c)
        \/ UpstreamSocketError(c)

Spec == Init /\ [][Next]_vars

----------------------------------------------------------------------------
(* AudioSpec: one connection sending audio frames and turn boundaries      *)

FrameLens == {0, 1, 2, 12288, 24577, 24578}

AudioFrames ==
    {BinaryFrame(n) : n \in FrameLens}
        \cup {EndFrame, TextFrame("openai:conversation", "input_audio_buffer.commit")}

AudioNext ==
    \/ ClientConnect("s1")
    \/ HandshakeOpen("s1")
    \/ HandshakeTimeout("s1")
    \/ HandshakeError("s1")
    \/ ClientClose("s1")
    \/ \E f \in AudioFrames : FramesSent < MaxAudioFrames /\ ClientMessage("s1", f)
    \/ UpstreamClosed("s1")

AudioSpec == Init /\ [][AudioNext]_vars

----------------------------------------------------------------------------
(* ToolSpec: one session receiving streamed function calls while time      *)
(* passes, retrievals complete in any order, and either side may close     *)

MaxCalls == 3

MaxTicks == 4

ToolNames == {"rag_search", "other"}

Deltas == {ArgsFinal, ArgsProvisional, ArgsHead}

RawResults == {<<>>, <<35>>, <<20, 82>>}

PendingIds(s) == DOMAIN fcalls[s].calls

UsedIds(s) == PendingIds(s) \cup {doneLog[s][i].id : i \in DOMAIN doneLog[s]}

ToolNext ==
    \/ ClientConnect("s1")
    \/ HandshakeOpen("s1")
    \/ ClientClose("s1")
    \/ UpstreamClosed("s1")
    \/ \E d \in TickSteps : now - Epoch < MaxTicks * 600 /\ Tick(d)
    \/ \E id \in 1..MaxCalls, name \in ToolNames, delta \in Deltas :
           /\ PendingIds("s1") = {}
           /\ id \notin UsedIds("s1")
           /\ \A k \in 1..(id - 1) : k \in UsedIds("s1")
           /\ ArgsDelta("s1", id, name, delta)
    \/ \E id \in PendingIds("s1") :
           /\ fcalls["s1"].calls[id].args = <<ArgsHead>>
           /\ ArgsDelta("s1", id, "rag_search", ArgsTail)
    \/ \E id \in PendingIds("s1") : ArgsDone("s1", id) /\ UNCHANGED parsed
    \/ \E id \in 1..MaxCalls :
           /\ PendingIds("s1") = {}
           /\ id \notin UsedIds("s1")
           /\ \A k \in 1..(id - 1) : k \in UsedIds("s1")
           /\ ArgsDone("s1", id)
           /\ UNCHANGED parsed
    \/ \E call \in inflight, raw \in RawResults : RetrievalReturns(call, raw)
    \/ \E call \in inflight : RetrievalThrows(call)

ToolSpec == Init /\ [][ToolNext]_vars

----------------------------------------------------------------------------
(* CallSpec: two sessions whose upstreams stream function-call arguments   *)
(* for several call ids, interleaved, while clients may close              *)

MaxDeltas == 3

MaxDones == 2

CallIds == {1, 2}

CallDeltas == {ArgsHead, ArgsTail}

DeltasDelivered ==
    SumOver([c \in Conns |->
                Len(arrived[c])
                + SumOver([k \in DOMAIN parsed[c] |-> Len(parsed[c][k].deltas)],
                          DOMAIN parsed[c])],
            Conns)

DonesDelivered == SumOver([c \in Conns |-> Len(doneLog[c])], Conns)

CallNext ==
    \E c \in Conns :
        \/ ClientConnect(c)
        \/ HandshakeOpen(c)
        \/ ClientClose(c)
        \/ \E id \in CallIds, delta \in CallDeltas :
               DeltasDelivered < MaxDeltas /\ ArgsDelta(c, id, "rag_search", delta)
        \/ \E id \in CallIds :
               DonesDelivered < MaxDones /\ ArgsDone(c, id) /\ ObserveParse(c, id)

CallSpec == Init /\ [][CallNext]_vars

----------------------------------------------------------------------------
(* InstrSpec: one session whose instructions are updated while the         *)
(* upstream acknowledges, and either side may close                        *)

MaxInstrCalls == 3

MaxUpdated == 2

Instrs == {BaseInstr, <<97>>, <<35, 35>>, <<64, 32>>}

InstrNext ==
    \/ ClientConnect("s1")
    \/ HandshakeOpen("s1")
    \/ ClientClose("s1")
    \/ UpstreamClosed("s1")
    \/ \E instr \in Instrs :
           Len(instrCalls["s1"]) < MaxInstrCalls /\ MaybeUpdateInstructions("s1", instr)
    \/ Len(upSeen["s1"]) < MaxUpdated /\ UpstreamMessage("s1", "session.updated")

InstrSpec == Init /\ [][InstrNext]_vars

----------------------------------------------------------------------------
(* OpsSpec: session operations called at any moment of a session's life,   *)
(* and on a session id that was never created                              *)

MaxOps == 3

OpsNext ==
    \/ ClientConnect("s1")
    \/ HandshakeOpen("s1")
    \/ HandshakeTimeout("s1")
    \/ HandshakeError("s1")
    \/ ClientClose("s1")
    \/ UpstreamClosed("s1")
    \/ UpstreamSocketError("s1")
    \/ \E s \in Conns, op \in SessionOps :
           Len(opLog["s1"]) + Len(opLog["s2"]) < MaxOps /\ SessionOp(s, op)

OpsSpec == Init /\ [][OpsNext]_vars

----------------------------------------------------------------------------
(* RegistrySpec: sessions are created, also under an id that is taken      *)

MaxDuplicates == 2

MaxPending == 2

RegistryNext ==
    \/ ClientConnect("s1")
    \/ HandshakeOpen("s1")
    \/ ClientClose("s1")
    \/ UpstreamClosed("s1")
    \/ instrCalls["s1"] = <<>> /\ MaybeUpdateInstructions("s1", <<97>>)
    \/ \E id \in CallIds :
           DeltasDelivered < MaxPending /\ ArgsDelta("s1", id, "rag_search", ArgsFinal)
    \/ Len(orphans["s1"]) < MaxDuplicates /\ CreateSessionAgain("s1")

RegistrySpec == Init /\ [][RegistryNext]_vars

----------------------------------------------------------------------------
(* HeartbeatSpec: connections that answer pings or fall silent, under the  *)
(* 30 s heartbeat                                                          *)

MaxHbTicks == 3

HeartbeatNext ==
    \/ \E c \in Conns :
           \/ ClientConnect(c)
           \/ HandshakeOpen(c)
           \/ HandshakeError(c)
           \/ ClientClose(c)
           \/ Pong(c)
    \/ hbTicks < MaxHbTicks /\ HeartbeatTick

HeartbeatSpec == Init /\ [][HeartbeatNext]_vars

----------------------------------------------------------------------------
(* ValidationSpec: one connection sending malformed and well-formed frames *)

MaxValidationFrames == 3

\* one frame of every kind the message handler answers with code 400
MalformedFrames ==
    {BinaryFrame(1), GarbageFrame, TextFrame("", "input_text"),
     TextFrame("openai:conversation", ""), TextFrame("nope", "input_text"),
     TextFrame("openai:conversation", "input_audio_buffer.append")}

WellFormedFrames == {InputTextFrame, BinaryFrame(2), EndFrame}

\* a conversation frame whose type no branch of _handleConversation matches
UnknownTypeFrame == TextFrame("openai:conversation", "nope")

ValidationNext ==
    \/ ClientConnect("s1")
    \/ HandshakeOpen("s1")
    \/ ClientClose("s1")
    \/ UpstreamClosed("s1")
    \/ \E f \in MalformedFrames \cup WellFormedFrames \cup {UnknownTypeFrame} :
           FramesSent < MaxValidationFrames /\ ClientMessage("s1", f)

ValidationSpec == Init /\ [][ValidationNext]_vars

----------------------------------------------------------------------------
(* FeedSpec: two sessions receiving response stream events                 *)

MaxFeedEvents == 2

FeedTypes ==
    {"response.text.delta", "response.text.done", "response.audio.delta",
     "response.audio.done", "response.audio_transcript.delta",
     "response.audio_transcript.done"}

FeedIndexes == {0, 1}

FeedDeltas == {"a", "b"}

FeedNext ==
    \E c \in Conns :
        \/ ClientConnect(c)
        \/ HandshakeOpen(c)
        \/ ClientClose(c)
        \/ \E type \in FeedTypes, index \in FeedIndexes, delta \in FeedDeltas :
               upEvents < MaxFeedEvents /\ UpstreamData(c, type, index, delta)

FeedSpec == Init /\ [][FeedNext]_vars

----------------------------------------------------------------------------
(* AwaitSpec: sendTextMessageWithResponse calls on one session while       *)
(* response events arrive                                                  *)

MaxAwaitCalls == 2

MaxAwaitEvents == 3

AwaitMessages ==
    {<<"response.text.delta", "a">>, <<"response.text.delta", "b">>,
     <<"response.text.done", "">>, <<"response.done", "">>, <<"error", "">>,
     <<"response.error", "">>}

AwaitNext ==
    \/ ClientConnect("s1")
    \/ HandshakeOpen("s1")
    \/ ClientClose("s1")
    \/ UpstreamClosed("s1")
    \/ Len(waiters["s1"]) < MaxAwaitCalls /\ SendTextAwait("s1")
    \/ \E m \in AwaitMessages :
           upEvents < MaxAwaitEvents /\ UpstreamData("s1", m[1], 0, m[2])

AwaitSpec == Init /\ [][AwaitNext]_vars

\* the same, for what eventually happens: an upstream socket that is open or
\* closing does not stay so forever (the peer or the close handshake ends it),
\* so its close is taken when it stays possible
AwaitLiveSpec == AwaitSpec /\ WF_vars(UpstreamClosed("s1"))

----------------------------------------------------------------------------
(* RagSpec: searchVectorDB applied to every model response of bounded size *)

MaxRawLen == 3

MaxCitations == 2

RagTexts == {<<>>, <<97, 98, 99>>}

RagScores == {NotANumber, NumberScore(20), NumberScore(82)}

RagItems == [text : RagTexts, score : RagScores, file_id : {"f1"}]

RagCitations == [quote : RagTexts, file_id : {"f1", "f2"}]

SeqsUpTo(S, n) == UNION {[1..k -> S] : k \in 0..n}

RagResponses ==
    {[parsed |-> p, citations |-> <<>>] : p \in SeqsUpTo(RagItems, MaxRawLen)}
        \cup {[parsed |-> <<>>, citations |-> c] : c \in SeqsUpTo(RagCitations, MaxCitations)}

RagThresholds == {0, 15, 30}

RagMaxChars == {2, 3}

RagInit ==
    /\ ragIn \in [resp : RagResponses, topK : 0..MaxRawLen, threshold : RagThresholds,
                  maxChars : RagMaxChars]
    /\ ragOut = NotCalled
    /\ FramerIdle
    /\ VoiceIdle
    /\ BrokerInit

CallSearchVectorDB ==
    /\ ~ragOut.called
    /\ ragOut' = Returned(searchSnippets(ragIn.resp, ragIn.topK, ragIn.threshold,
                                         ragIn.maxChars))
    /\ UNCHANGED <<ragIn, framerVars, voiceVars, brokerVars>>

RagNext == CallSearchVectorDB

RagSpec == RagInit /\ [][RagNext]_vars

----------------------------------------------------------------------------
(* KeepaliveSpec: the upstream keepalive over the life of the sessions      *)

\* firings of the keepalive interval in one run of KeepaliveSpec, over all sessions
MaxKeepaliveTicks == 3

KeepaliveNext ==
    \E c \in Conns :
        \/ ClientConnect(c)
        \/ HandshakeOpen(c)
        \/ HandshakeTimeout(c)
        \/ HandshakeError(c)
        \/ ClientClose(c)
        \/ UpstreamClosed(c)
        \/ UpstreamSocketError(c)
        \/ SumOver(kaTicks, Conns) < MaxKeepaliveTicks /\ KeepaliveTick(c)

KeepaliveSpec == Init /\ [][KeepaliveNext]_vars

----------------------------------------------------------------------------
(* ConfidenceSpec: one session whose tool calls carry their own mode and   *)
(* threshold, answered by retrievals of every kind                         *)

\* tool calls streamed in one run of ConfidenceSpec
MaxConfidenceCalls == 2

ConfidenceDeltas == {ArgsFinal, ArgsProvisional, ArgsStrict, ArgsStrictFinal}

ConfidenceRaw == {<<>>, <<35>>, <<45>>, <<20, 82>>}

ConfidenceNext ==
    \/ ClientConnect("s1")
    \/ HandshakeOpen("s1")
    \/ ClientClose("s1")
    \/ UpstreamClosed("s1")
    \/ \E d \in TickSteps : now - Epoch < MaxTicks * 600 /\ Tick(d)
    \/ \E id \in 1..MaxConfidenceCalls, delta \in ConfidenceDeltas :
           /\ PendingIds("s1") = {}
           /\ id \notin UsedIds("s1")
           /\ \A k \in 1..(id - 1) : k \in UsedIds("s1")
           /\ ArgsDelta("s1", id, "rag_search", delta)
    \/ \E id \in PendingIds("s1") : ArgsDone("s1", id) /\ UNCHANGED parsed
    \/ \E call \in inflight, raw \in ConfidenceRaw : RetrievalReturns(call, raw)

ConfidenceSpec == Init /\ [][ConfidenceNext]_vars

----------------------------------------------------------------------------
(* CloseSpec: two sessions with pending calls and tool state, closed by    *)
(* their clients and by direct calls of closeSession, on any id, repeatedly *)

\* direct calls of closeSession in one run of CloseSpec
MaxCloseCalls == 3

CloseCalls == Len(opLog["s1"]) + Len(opLog["s2"])

CloseNext ==
    \E c \in Conns :
        \/ ClientConnect(c)
        \/ HandshakeOpen(c)
        \/ ClientClose(c)
        \/ UpstreamClosed(c)
        \/ /\ PendingIds(c) = {}
           /\ UsedIds(c) = {}
           /\ ArgsDelta(c, 1, "rag_search", ArgsFinal)
        \/ \E id \in PendingIds(c) : ArgsDone(c, id) /\ UNCHANGED parsed
        \/ \E call \in inflight : call.s = c /\ RetrievalReturns(call, <<>>)
        \/ CloseCalls < MaxCloseCalls /\ CloseSessionCall(c)

CloseSpec == Init /\ [][CloseNext]_vars

----------------------------------------------------------------------------
(* VoiceSpec: CREATE_SESSION requests of the legacy handler, interleaved   *)

VoiceSpec == Init /\ [][VoiceNext]_vars

----------------------------------------------------------------------------
(* Claims about the broker (Spec) *)

ListenersOf(c) == {e \in HandlerEvents : <<c, e>> \in listeners}

\* C1: no envelope written to the client socket of a session is derived from
\* an upstream event (stream, error or closed) of another session.
C1_CrossSessionIsolation ==
    \A c \in Conns : \A i \in DOMAIN clientOut[c] : clientOut[c][i].src = c

\* the connection has nothing asynchronous left to do: its handshake is
\* settled and no upstream close is in progress
Settled(c) ==
    /\ phase[c] # "creating"
    /\ up[c] \notin {"connecting", "closing"}

\* C2: once the client socket of an accepted connection has closed and the
\* connection has settled, the registry holds no entry for its session, its
\* upstream socket is not open and none of its forwarders is subscribed.
C2_TeardownOnClientClose ==
    \A c \in Conns :
        (client[c] = "closed" /\ Settled(c)) =>
            /\ c \notin clients
            /\ up[c] # "open"
            /\ ListenersOf(c) = {}

IsUpstreamClosedEnvelope(env, c) ==
    env.channel = "openai:error" /\ env.message = "Upstream closed" /\ env.src = c

\* C3: when the upstream socket of an established session has closed, the
\* forwarders of its connection are unsubscribed, the session is out of the
\* registry, the client socket is no longer open, and nothing was written to
\* the client after the openai:error envelope of that close.
C3_TeardownOnUpstreamClose ==
    \A c \in Conns :
        (phase[c] = "ready" /\ up[c] = "closed") =>
            /\ ListenersOf(c) = {}
            /\ c \notin clients
            /\ client[c] # "open"
            /\ \A i, j \in DOMAIN clientOut[c] :
                   (i < j /\ IsUpstreamClosedEnvelope(clientOut[c][i], c)) =>
                       clientOut[c][j].src # c

\* C4: a session id is registered exactly when an open upstream socket
\* exists for it.
C4_NoOrphans ==
    \A c \in Conns : (c \in clients) <=> (up[c] = "open")

----------------------------------------------------------------------------
(* Claims about audio turns (AudioSpec) *)

IsPrefix(a, b) == Len(a) <= Len(b) /\ SubSeq(b, 1, Len(a)) = a

\* the audio frames of an upstream log, as byte ranges of client frames and
\* turn boundaries
AudioItems(log) ==
    LET audio == SelectSeq(log, LAMBDA x :
                     x.type \in {"input_audio_buffer.append", "input_audio_buffer.commit"})
    IN  [i \in DOMAIN audio |->
            IF audio[i].type = "input_audio_buffer.append"
            THEN [kind |-> "bytes", id |-> audio[i].audio.of,
                  from |-> audio[i].audio.from, to |-> audio[i].audio.to]
            ELSE [kind |-> "end", id |-> <<>>, from |-> 0, to |-> 0]]

\* chunking undone: adjacent ranges of one frame that continue each other
\* are joined
RECURSIVE Coalesce(_)
Coalesce(items) ==
    IF Len(items) <= 1 THEN items
    ELSE LET a == items[1]
             b == items[2]
         IN  IF a.kind = "bytes" /\ b.kind = "bytes" /\ a.id = b.id /\ b.from = a.to
             THEN Coalesce(<<[a EXCEPT !.to = b.to]>> \o Tail(Tail(items)))
             ELSE <<a>> \o Coalesce(Tail(items))

\* what the client sent, in order: the byte ranges of its well-formed binary
\* frames (a positive even number of bytes) and its turn boundaries
ClientAudio(c) ==
    LET idx == [i \in DOMAIN recv[c] |-> [k |-> i, f |-> recv[c][i]]]
        kept == SelectSeq(idx, LAMBDA x :
                    \/ x.f.bin /\ x.f.len > 0 /\ x.f.len % 2 = 0
                    \/ x.f = EndFrame)
    IN  [i \in DOMAIN kept |->
            IF kept[i].f.bin
            THEN [kind |-> "bytes", id |-> <<c, kept[i].k>>, from |-> 0, to |-> kept[i].f.len]
            ELSE [kind |-> "end", id |-> <<>>, from |-> 0, to |-> 0]]

\* every commit is directly followed by response.create [text, audio]
CommitThenResponse(log) ==
    \A i \in DOMAIN log :
        log[i].type = "input_audio_buffer.commit" =>
            /\ i < Len(log)
            /\ log[i + 1] = ResponseCreateFrame(TextAudio)

\* C5: within a session the upstream sees the bytes of the client's binary
\* frames in the order received (frame order, then chunk order), each turn's
\* appends before its commit, and each commit directly followed by
\* response.create; while the upstream is open nothing received is missing.
C5_AudioOrdering ==
    \A c \in Conns :
        /\ IsPrefix(Coalesce(AudioItems(upLog[c])), ClientAudio(c))
        /\ NeedWsOk(c) => Coalesce(AudioItems(upLog[c])) = ClientAudio(c)
        /\ CommitThenResponse(upLog[c])

C5_Witness ==
    /\ NeedWsOk("s1")
    /\ recv["s1"] = <<BinaryFrame(24578), BinaryFrame(2), EndFrame>>
    /\ Len(upLog["s1"]) = 7

\* sizes, in bytes, of the appended chunks of a log
AppendSizes(log) ==
    LET a == SelectSeq(log, LAMBDA x : x.type = "input_audio_buffer.append")
    IN  [i \in DOMAIN a |-> a[i].audio.to - a[i].audio.from]

\* the log without its append frames
NonAppend(log) == SelectSeq(log, LAMBDA x : x.type # "input_audio_buffer.append")

TurnOf(len) == <<BinaryFrame(len), EndFrame>>

\* C7 as stated: a 24,577-byte binary frame followed by input_audio_buffer.end
\* yields three appends of 12,288 + 12,288 + 1 bytes, then commit, then
\* response.create [text, audio].
C7_OddFrameThreeAppends ==
    (recv["s1"] = TurnOf(24577) /\ NeedWsOk("s1")) =>
        /\ AppendSizes(upLog["s1"]) = <<12288, 12288, 1>>
        /\ NonAppend(upLog["s1"]) =
               <<SessionUpdateFrame, CommitFrame, ResponseCreateFrame(TextAudio)>>

\* C7 amended: the 24,577-byte frame is answered with a code-400 envelope and
\* nothing is appended, the end message then sends commit and response.create;
\* a 24,578-byte frame yields three appends of 12,288 + 12,288 + 2 bytes,
\* then commit, then response.create [text, audio].
C7_AudioTurn ==
    /\ (recv["s1"] = TurnOf(24577) /\ NeedWsOk("s1")) =>
           /\ upLog["s1"] = <<SessionUpdateFrame, CommitFrame, ResponseCreateFrame(TextAudio)>>
           /\ Len(clientOut["s1"]) = 1
           /\ clientOut["s1"][1].channel = "openai:error"
           /\ clientOut["s1"][1].code = 400
    /\ (recv["s1"] = TurnOf(24578) /\ NeedWsOk("s1")) =>
           /\ AppendSizes(upLog["s1"]) = <<12288, 12288, 2>>
           /\ NonAppend(upLog["s1"]) =
                  <<SessionUpdateFrame, CommitFrame, ResponseCreateFrame(TextAudio)>>
           /\ Len(upLog["s1"]) = 6
           /\ upLog["s1"][5] = CommitFrame
           /\ clientOut["s1"] = <<>>

C7_Witness ==
    /\ recv["s1"] = TurnOf(24577)
    /\ NeedWsOk("s1")
    /\ Len(clientOut["s1"]) = 1

----------------------------------------------------------------------------
(* Base64 decoding, the inverse used to state the round trip *)

Base64Decode(text) ==
    LET groups == Len(text) \div 4
        val(x) == IF x = Pad THEN 0 ELSE x
        word(g) == val(text[4 * g + 1]) * 262144 + val(text[4 * g + 2]) * 4096
                   + val(text[4 * g + 3]) * 64 + val(text[4 * g + 4])
        missing == IF groups = 0 THEN 0
                   ELSE IF text[4 * groups - 1] = Pad THEN 2
                   ELSE IF text[4 * groups] = Pad THEN 1 ELSE 0
        byte(g, j) ==
            CASE j = 0 -> word(g) \div 65536
              [] j = 1 -> (word(g) \div 256) % 256
              [] j = 2 -> word(g) % 256
    IN  [i \in 1..(3 * groups - missing) |-> byte((i - 1) \div 3, (i - 1) % 3)]

DecodedChunks(out) == [k \in DOMAIN out |-> Base64Decode(out[k].text)]

\* C6: for every non-empty buffer of even length, the base64 chunks decode
\* and concatenate back to the buffer; every chunk but the last has exactly
\* chunkBytes bytes and the last is non-empty.
C6_RoundTrip ==
    (framerOut.called /\ BufLength(input) > 0 /\ BufLength(input) % 2 = 0) =>
        /\ ~framerOut.threw
        /\ LET dec == DecodedChunks(framerOut.value)
           IN  /\ Flatten(dec) = BufBytes(input)
               /\ Len(dec) >= 1
               /\ \A k \in 1..(Len(dec) - 1) : Len(dec[k]) = chunkBytes
               /\ Len(dec[Len(dec)]) >= 1
               /\ Len(dec[Len(dec)]) <= chunkBytes

C6_Witness ==
    /\ framerOut.called
    /\ ~framerOut.threw
    /\ BufLength(input) = 4
    /\ chunkBytes = 3
    /\ Len(framerOut.value) = 2

\* C8 as stated: the framer returns an empty list for an empty buffer, and
\* only a non-empty buffer of odd length fails.
C8_EmptyReturnsEmptyList ==
    framerOut.called =>
        /\ (BufLength(input) = 0 => (~framerOut.threw /\ framerOut.value = <<>>))
        /\ (framerOut.threw => (BufLength(input) > 0 /\ BufLength(input) % 2 = 1))

\* C8 amended: chunkBuffer returns an empty list for an empty buffer;
\* toBase64PcmChunks fails exactly on the empty buffer and on buffers of odd
\* length, and returns a non-empty list otherwise.
C8_EmptyRejected ==
    /\ (chunkOut.called /\ BufLength(input) = 0) => chunkOut.value = <<>>
    /\ framerOut.called =>
           /\ framerOut.threw <=> (BufLength(input) = 0 \/ BufLength(input) % 2 = 1)
           /\ framerOut.threw => framerOut.value = "Invalid PCM16 buffer."
           /\ ~framerOut.threw => Len(framerOut.value) >= 1

C8_Witness ==
    /\ BufLength(input) = 0
    /\ framerOut.called
    /\ framerOut.threw
    /\ chunkOut.called
    /\ chunkOut.value = <<>>

----------------------------------------------------------------------------
(* Claims about the tool executor (ToolSpec) *)

Skipped(d) == d.outcome = "skipped"

SkippedOutput(id) == ToolOutput(id, [skipped |-> TRUE, reason |-> "rate_limited"])

ResultOutputs(s) ==
    SelectSeq(upLog[s], LAMBDA f : f.type = "tool.output" /\ "context" \in DOMAIN f.output)

\* the number of consecutive low-confidence results ending at the k-th
RECURSIVE LowRun(_, _)
LowRun(rs, k) ==
    IF k = 0 \/ rs[k] # "low" THEN 0 ELSE 1 + LowRun(rs, k - 1)

\* C10: the n-th consecutive low-confidence retrieval result of a session is
\* answered by a tool.output with lowConfidence true and lowConfidenceCount
\* n, with the retry message when n < 3 and the escalation message when
\* n >= 3; a confident result is answered without the lowConfidence field;
\* after a confident result the counter of the session is 0, and while the
\* session is registered the counter is the length of the current run of
\* low-confidence results
C10_LowConfidenceEscalation ==
    \A s \in Conns :
        LET outs == ResultOutputs(s)
            rs == results[s]
        IN  /\ Len(outs) <= Len(rs)
            /\ ~crashed => Len(outs) = Len(rs)
            /\ \A k \in DOMAIN outs :
                   LET out == outs[k].output
                       n == LowRun(rs, k)
                   IN  IF rs[k] = "low"
                       THEN /\ "lowConfidence" \in DOMAIN out
                            /\ out.lowConfidence = TRUE
                            /\ out.lowConfidenceCount = n
                            /\ out.sources = <<>> /\ out.count = 0
                            /\ n < 3 => out.context = RetryMessage
                            /\ n >= 3 => out.context = EscalationMessage
                       ELSE /\ "lowConfidence" \notin DOMAIN out
                            /\ out.count > 0
            /\ (rs # <<>> /\ rs[Len(rs)] = "ok") => OrZero(lowConfidenceCount[s]) = 0
            /\ s \in clients => OrZero(lowConfidenceCount[s]) = LowRun(rs, Len(rs))

\* three low-confidence results in a row, the second answered with the retry
\* message and the third with the escalation message
C10_Witness ==
    /\ ~crashed
    /\ Len(ResultOutputs("s1")) = 3
    /\ results["s1"] = <<"low", "low", "low">>
    /\ ResultOutputs("s1")[2].output.context = RetryMessage
    /\ ResultOutputs("s1")[3].output.lowConfidenceCount = 3
    /\ ResultOutputs("s1")[3].output.context = EscalationMessage
    /\ lowConfidenceCount["s1"] = 3

----------------------------------------------------------------------------
(* Claims about function-call arguments (CallSpec) *)

\* C11: for every call_id, the argument text parsed at done is exactly the
\* concatenation, in arrival order, of the delta payloads that arrived for
\* that call_id on that session, also with interleaved call ids and sessions
C11_ArgumentCoalescing ==
    \A s \in Conns : \A k \in DOMAIN parsed[s] :
        parsed[s][k].found => parsed[s][k].text = parsed[s][k].deltas

----------------------------------------------------------------------------
(* Claims about tool-call responses (ToolSpec) *)

\* the tool.output frames sent for call id on session s
OutputsFor(s, id) ==
    SelectSeq(upLog[s], LAMBDA f : f.type = "tool.output" /\ f.tool_call_id = id)

\* C12: every arguments.done(call_id) received on an open upstream removes
\* the pending entry of call_id and, once its handler has nothing left to
\* await, has produced exactly one tool.output with that tool_call_id,
\* whether or not a delta for call_id came first
C12_DoneAnsweredOnce ==
    \A s \in Conns : \A k \in DOMAIN doneLog[s] :
        LET e == doneLog[s][k]
        IN  e.open =>
                /\ e.id \notin PendingIds(s)
                /\ \/ crashed
                   \/ \E call \in inflight : call.s = s /\ call.id = e.id
                   \/ Len(OutputsFor(s, e.id)) = 1

----------------------------------------------------------------------------
(* Claims about the instructions of a session (InstrSpec) *)

\* two calls of _maybeUpdateInstructions in a row with the same instructions,
\* both on an open session
SameTwice(s, k) ==
    /\ k + 1 \in DOMAIN instrCalls[s]
    /\ instrCalls[s][k].instr = instrCalls[s][k + 1].instr
    /\ instrCalls[s][k].open /\ instrCalls[s][k + 1].open

UpdatesSent(s) == Len(SelectSeq(upLog[s], LAMBDA f : f.type = "session.update"))

UpdatesAccepted(s) == Len(SelectSeq(upSeen[s], LAMBDA t : t = "session.updated"))

\* C14: the recorded instruction hash of a session is that of instructions
\* whose session.update the upstream has accepted: while a hash is recorded,
\* every session.update sent so far has been answered by a session.updated
C14_HashAfterAcceptance ==
    \A s \in Conns :
        lastInstrHash[s] # NoHash => UpdatesAccepted(s) >= UpdatesSent(s)

----------------------------------------------------------------------------
(* Claims about session operations (OpsSpec) *)

OpFailed(e) == e.res = Threw("Session not found or not open") /\ e.frames = 0

\* C15: a session operation invoked for a session that is unknown, closed or
\* whose upstream socket is not OPEN fails with the session-closed error and
\* sends no frame upstream; once an operation has found the session closed
\* (its socket closing or closed, or deregistered after its handshake), no
\* later operation on it succeeds
C15_ClosedIsTerminal ==
    \A s \in Conns : \A k \in DOMAIN opLog[s] :
        LET e == opLog[s][k]
        IN  /\ (~e.reg \/ e.up # "open") => OpFailed(e)
            /\ (OpFailed(e) /\ e.up \in {"open", "closing", "closed"}) =>
                   \A j \in DOMAIN opLog[s] : j > k => OpFailed(opLog[s][j])
            /\ (e.reg /\ e.up = "open") => (~e.res.threw /\ e.frames = Len(OpFrames(e.op)))

\* an operation that succeeded, then one that failed on the closed session,
\* and an operation on a session id that was never created
C15_Witness ==
    /\ Len(opLog["s1"]) = 2
    /\ ~opLog["s1"][1].res.threw
    /\ opLog["s1"][2].up \in {"closing", "closed"} /\ OpFailed(opLog["s1"][2])
    /\ Len(opLog["s2"]) = 1 /\ OpFailed(opLog["s2"][1])
    /\ upLog["s2"] = <<>>

----------------------------------------------------------------------------
(* Claims about upstream failures and session creation (Spec) *)

\* the openai:error envelopes connection c received for events of session s
ErrorEnvelopesFrom(c, s) ==
    SelectSeq(clientOut[c], LAMBDA env : env.channel = "openai:error" /\ env.src = s)

\* the upstream of session s has delivered a protocol error event
ProtocolErrorSeen(s) ==
    \E i \in DOMAIN upSeen[s] : upSeen[s][i] \in {"error", "response.error"}

\* C16: once the upstream has delivered an error or response.error event for
\* session s (and the handler has run to its end), the owning client has
\* received no more than one openai:error envelope for it, the session is
\* out of the registry and its upstream socket is no longer open
C16_ProtocolErrorIsFatal ==
    \A s \in Conns :
        (ProtocolErrorSeen(s) /\ ~crashed) =>
            /\ Len(ErrorEnvelopesFrom(s, s)) <= 1
            /\ s \notin clients
            /\ up[s] # "open"

\* C17: creating a session under an id that is registered fails and leaves
\* the registered session as it was: no registered upstream socket, metadata
\* or pending tool-call map is ever replaced
C17_InsertUniqueness ==
    \A s \in Conns : orphans[s] = <<>>

\* C18: when opening the upstream session of a connection has failed
\* (handshake error or timeout), the client socket is not open any more,
\* whatever it received was a single code-503 openai:error envelope, none of
\* the connection's forwarders is subscribed and its session id is not
\* registered
C18_UpstreamUnavailable ==
    \A c \in Conns :
        phase[c] = "failed" =>
            /\ client[c] # "open"
            /\ \A i \in DOMAIN clientOut[c] :
                   clientOut[c][i].src = c =>
                       (clientOut[c][i].channel = "openai:error" /\ clientOut[c][i].code = 503)
            /\ Len(ErrorEnvelopesFrom(c, c)) <= 1
            /\ ListenersOf(c) = {}
            /\ c \notin clients

\* C19 (client heartbeat): at every heartbeat tick each tracked client that
\* has not answered the previous tick's ping is terminated and every other
\* tracked client is marked not alive and pinged; a client terminated by the
\* heartbeat had left a ping unanswered, and a tracked client is never more
\* than one tick behind, so a silent client is gone within two ticks.
C19_TickStep ==
    hbTicks' # hbTicks =>
        \A c \in Conns :
            client[c] = "open" =>
                IF silentTicks[c] >= 1
                THEN client'[c] = "closed" /\ hbTerminated'[c]
                ELSE /\ client'[c] = "open"
                     /\ ~isAlive'[c]
                     /\ pings'[c] = pings[c] + 1
                     /\ ~hbTerminated'[c]

C19_Heartbeat ==
    /\ [][C19_TickStep]_vars
    /\ [](\A c \in Conns :
            /\ client[c] = "open" => silentTicks[c] <= 1
            /\ hbTerminated[c] => silentTicks[c] >= 1 /\ client[c] = "closed")

C19_Witness ==
    /\ hbTerminated["s1"]
    /\ client["s2"] = "open"
    /\ pings["s2"] >= 2
    /\ isAlive["s2"]

\* the upstream frame types a well-formed client frame produces
NormalTypes(f) ==
    CASE f = InputTextFrame -> <<"conversation.item.create", "response.create">>
      [] f = EndFrame -> <<"input_audio_buffer.commit", "response.create">>
      [] f = BinaryFrame(2) -> <<"input_audio_buffer.append">>

TypesOf(log) == [k \in DOMAIN log |-> log[k].type]

\* the step handled a client frame of c and answered it with a code-400 envelope
Rejected400(c) ==
    /\ Len(recv'[c]) = Len(recv[c]) + 1
    /\ Len(clientOut'[c]) = Len(clientOut[c]) + 1
    /\ clientOut'[c][Len(clientOut'[c])].code = 400
    /\ clientOut'[c][Len(clientOut'[c])].channel = "openai:error"

\* C20 (per-frame validation errors are local): a client frame of one of the
\* malformed kinds is answered with a code-400 envelope; a frame answered
\* with a code-400 envelope sends nothing upstream and leaves the session
\* registered and both sockets as they were; and a well-formed frame handled
\* while the session is open, whatever was rejected before it, sends exactly
\* its normal upstream frames and no envelope.
C20_FrameStep ==
    \A c \in Conns :
        Len(recv'[c]) = Len(recv[c]) + 1 =>
            LET f == recv'[c][Len(recv'[c])]
            IN  /\ f \in MalformedFrames => Rejected400(c)
                /\ Rejected400(c) =>
                       /\ upLog' = upLog
                       /\ UNCHANGED connVars
                       /\ SubSeq(clientOut'[c], 1, Len(clientOut[c])) = clientOut[c]
                /\ f \in WellFormedFrames /\ NeedWsOk(c) =>
                       /\ TypesOf(upLog'[c]) = TypesOf(upLog[c]) \o NormalTypes(f)
                       /\ clientOut' = clientOut
                       /\ UNCHANGED connVars

C20_ValidationErrorsAreLocal == [][C20_FrameStep]_vars

C20_Witness ==
    /\ NeedWsOk("s1")
    /\ client["s1"] = "open"
    /\ \E bad \in MalformedFrames, good \in WellFormedFrames :
           /\ recv["s1"] = <<bad, good>>
           /\ TypesOf(upLog["s1"]) = <<"session.update">> \o NormalTypes(good)
    /\ Len(clientOut["s1"]) = 1
    /\ clientOut["s1"][1].code = 400

\* C21 (process safety under session failure): no upstream event or failure
\* of a session (protocol error, socket error, socket close, a retrieval that
\* completes after the upstream socket closed) raises an exception that
\* escapes its handler, whatever is subscribed on the event bus.
C21_NoEscapingException == ~crashed

\* the client frames that need an upstream operation
OperationFrames ==
    {BinaryFrame(2), EndFrame, InputTextFrame,
     TextFrame("openai:conversation", "input_audio_buffer.commit")}

\* C22 (SessionClosed at the broker): the handler of a client frame that
\* needs an upstream operation, run while the session's upstream is closed,
\* writes an error envelope to the client and closes the client socket.
C22_FrameStep ==
    \A c \in Conns :
        (/\ Len(recv'[c]) = Len(recv[c]) + 1
         /\ recv'[c][Len(recv'[c])] \in OperationFrames
         /\ ~NeedWsOk(c))
        => /\ Len(clientOut'[c]) = Len(clientOut[c]) + 1
           /\ clientOut'[c][Len(clientOut'[c])].channel = "openai:error"
           /\ client'[c] # "open"

C22_SessionClosedClosesClient == [][C22_FrameStep]_vars

\* the routing keys the broker recognizes
KnownChannels ==
    {"openai:conversation", "sonju:summarize", "sonju:suggestedQuestion", "sonju:officeInfo"}

KnownTypes ==
    {"input_audio_buffer.commit", "input_audio_buffer.append", "input_audio_buffer.end",
     "input_text", "preprompted"}

UnknownRoutingKey(f) ==
    /\ ~f.bin
    /\ f.msg # Null
    /\ f.msg.channel # ""
    /\ \/ f.msg.channel \notin KnownChannels
       \/ f.msg.channel = "openai:conversation" /\ f.msg.type # "" /\ f.msg.type \notin KnownTypes

\* C23 (unknown routing keys): a client text frame whose channel is
\* unrecognized, or whose channel is openai:conversation and whose type is
\* unrecognized, is answered with an openai:error envelope of code 400 and
\* the session continues (connection state untouched).
C23_FrameStep ==
    \A c \in Conns :
        (/\ Len(recv'[c]) = Len(recv[c]) + 1
         /\ UnknownRoutingKey(recv'[c][Len(recv'[c])]))
        => Rejected400(c) /\ UNCHANGED connVars

C23_UnknownRoutingKeys == [][C23_FrameStep]_vars

----------------------------------------------------------------------------
(* Claims about failing tool calls (ToolSpec) *)

\* frame is a tool.output for call id whose output carries an error field
IsErrorOutput(frame, id) ==
    /\ frame.type = "tool.output"
    /\ frame.tool_call_id = id
    /\ "error" \in DOMAIN frame.output

\* the step appends exactly one frame to the upstream log of s, an error
\* output for call id, and leaves the session and its counter alone
AnswersWithError(s, id) ==
    /\ Len(upLog'[s]) = Len(upLog[s]) + 1
    /\ SubSeq(upLog'[s], 1, Len(upLog[s])) = upLog[s]
    /\ IsErrorOutput(upLog'[s][Len(upLog'[s])], id)
    /\ UNCHANGED <<clients, up, lowConfidenceCount, crashed>>

\* the step is a retrieval of session s throwing
RetrievalThrew(s) == Len(thrown'[s]) = Len(thrown[s]) + 1

\* the step is the done message of a call of s whose accumulated argument
\* text is not a complete JSON document, dispatched (not rate limited)
UnusableArgsDispatched(s) ==
    /\ Len(doneLog'[s]) = Len(doneLog[s]) + 1
    /\ LET id == doneLog'[s][Len(doneLog'[s])].id
       IN  /\ PendingCall(s, id) # Null
           /\ PendingCall(s, id).args = <<ArgsHead>>
    /\ now - OrZero(lastToolAt[s]) >= minToolIntervalMs

C24_FailureStep ==
    \A s \in Conns :
        /\ (RetrievalThrew(s) /\ NeedWsOk(s))
               => AnswersWithError(s, thrown'[s][Len(thrown'[s])].id)
        /\ (UnusableArgsDispatched(s) /\ NeedWsOk(s))
               => AnswersWithError(s, doneLog'[s][Len(doneLog'[s])].id)

\* C24 (tool failure): when retrieval throws, or the parsed arguments are
\* unusable, during a tool-call dispatch on an open upstream, exactly one
\* tool.output carrying an error field and that call's id is sent, the
\* session stays registered and open, and the low-confidence counter is
\* unchanged; no other tool.output is ever sent for that call.
C24_ToolFailure ==
    /\ [][C24_FailureStep]_vars
    /\ [](\A s \in Conns : \A k \in DOMAIN thrown[s] :
            thrown[s][k].open =>
                /\ Len(OutputsFor(s, thrown[s][k].id)) = 1
                /\ IsErrorOutput(OutputsFor(s, thrown[s][k].id)[1], thrown[s][k].id))

C24_Witness ==
    /\ NeedWsOk("s1")
    /\ ~crashed
    /\ lowConfidenceCount["s1"] = 1
    /\ Len(thrown["s1"]) = 1
    /\ thrown["s1"][1].open
    /\ IsErrorOutput(upLog["s1"][Len(upLog["s1"])], thrown["s1"][1].id)
    /\ \E k \in DOMAIN dispatches["s1"] : dispatches["s1"][k].outcome = "empty query"

----------------------------------------------------------------------------
(* Claims about the event feed *)

\* the step handles a function-call message of session s, or resumes the
\* tool call such a message started
FunctionCallStep(s) ==
    \/ Len(arrived'[s]) = Len(arrived[s]) + 1
    \/ Len(doneLog'[s]) = Len(doneLog[s]) + 1
    \/ \E call \in inflight : call.s = s /\ call \notin inflight'

\* C25 (function-call events are internal): handling an upstream
\* response.function_call.arguments.delta or .done message, the resumption
\* of its tool call included, writes no envelope to any client socket and
\* emits no feed event on the bus.
C25_FunctionCallStep ==
    \A s \in Conns :
        FunctionCallStep(s) => clientOut' = clientOut /\ emitted' = emitted

C25_FunctionCallsAreInternal == [][C25_FunctionCallStep]_vars

C25_Witness ==
    /\ client["s1"] = "open"
    /\ \A e \in HandlerEvents : <<"s1", e>> \in listeners
    /\ \E k \in DOMAIN doneLog["s1"] : doneLog["s1"][k].found /\ doneLog["s1"][k].open
    /\ Len(ResultOutputs("s1")) >= 1
    /\ clientOut["s1"] = <<>>
    /\ emitted["s1"] = 0

\* the client envelope type of an upstream stream message type (the two
\* coincide for the six forwarded kinds)
MappedType(type) == type

\* the envelope one stream message of session s has to produce
ExpectedEnvelope(s, m) ==
    [channel |-> "openai:conversation", type |-> MappedType(m.type), code |-> 0,
     message |-> IF m.type \in {"response.text.delta", "response.audio.delta",
                                "response.audio_transcript.delta"}
                 THEN m.delta ELSE "",
     src |-> s, output_index |-> m.output_index]

\* the stream messages of s received while its client socket was open
FedWhileOpen(s) ==
    SelectSeq(feed[s], LAMBDA m : m.open /\ m.type \in FeedTypes)

\* C26 (fan-out is one-to-one and order-preserving): the conversation
\* envelopes written to a client are exactly, one for one and in order of
\* receipt, the mapped stream events its own session received while the
\* client socket was open, each with the event's output_index (and delta).
C26_FanOut ==
    \A c \in Conns :
        LET sent == SelectSeq(clientOut[c], LAMBDA e : e.channel = "openai:conversation")
            fed == FedWhileOpen(c)
        IN  /\ Len(sent) = Len(fed)
            /\ \A k \in DOMAIN sent : sent[k] = ExpectedEnvelope(c, fed[k])

C26_Witness ==
    /\ client["s1"] = "open"
    /\ client["s2"] = "open"
    /\ Len(clientOut["s1"]) = 1
    /\ Len(clientOut["s2"]) = 1
    /\ clientOut["s1"][1].type = "response.text.delta"
    /\ clientOut["s1"][1].message = "a"
    /\ clientOut["s2"][1].type = "response.audio.done"
    /\ clientOut["s2"][1].output_index = 1

----------------------------------------------------------------------------
(* Claims about sendTextMessageWithResponse (AwaitSpec) *)

\* positions, in the messages session s received, of the settling messages
\* that came after position start
SettlingAfter(s, start) ==
    {i \in DOMAIN feed[s] :
        i > start /\ feed[s][i].type \in {"response.done", "error", "response.error"}}

SetMin(S) == CHOOSE x \in S : \A y \in S : x <= y

\* the response.text.delta payloads session s received at positions from..to
TextBetween(s, from, to) ==
    LET slice == SelectSeq(SubSeq(feed[s], from, to),
                           LAMBDA m : m.type = "response.text.delta")
    IN  [k \in DOMAIN slice |-> slice[k].delta]

\* C27 (send_text_await result): a call settles at most once and only at the
\* first response.done, error or response.error received after it: with
\* response.done it resolves with the text deltas received since the call,
\* concatenated in arrival order; with an error it fails; once settled none
\* of its listeners is attached; until then it is pending.
C27_AwaitResult ==
    \A s \in Conns : \A k \in DOMAIN waiters[s] :
        LET w == waiters[s][k]
            later == SettlingAfter(s, w.start)
        IN  ~w.threw =>
                IF later = {}
                THEN w.state = "pending" /\ w.settles = 0
                ELSE LET first == SetMin(later)
                     IN  /\ w.settles = 1
                         /\ w.at = first
                         /\ w.attached = {}
                         /\ IF feed[s][first].type = "response.done"
                            THEN /\ w.state = "resolved"
                                 /\ w.text = TextBetween(s, w.start + 1, first - 1)
                            ELSE w.state = "rejected"

C27_Witness ==
    /\ Len(waiters["s1"]) = 2
    /\ waiters["s1"][1].state = "resolved"
    /\ waiters["s1"][1].text = <<"a", "b">>
    /\ waiters["s1"][2].state = "resolved"
    /\ waiters["s1"][2].text = <<"b">>
    /\ waiters["s1"][1].attached = {}

----------------------------------------------------------------------------
(* Claims about per-session state *)

\* C28 (per-session state is released and stays released): a session id
\* that is not in the socket map (never created, or closed by closeSession)
\* has no metadata, no pending tool-call map, no last-tool timestamp and no
\* low-confidence counter, whatever arrives for it later.
C28_StateStaysReleased ==
    \A s \in Conns :
        s \notin clients =>
            /\ lastInstrHash[s] = NoHash
            /\ ~fcalls[s].present
            /\ lastToolAt[s] = Undefined
            /\ lowConfidenceCount[s] = Undefined

----------------------------------------------------------------------------
(* Claims about the retrieval client (RagSpec) *)

\* C29 (snippet length bound): every snippet searchVectorDB returns has a
\* content of at most maxChars characters, the truncation marker included.
C29_SnippetLengthBound ==
    ragOut.called =>
        \A k \in DOMAIN ragOut.value : Len(ragOut.value[k].content) <= ragIn.maxChars

\* the scores of a list of snippets
ScoresOf(snips) == [k \in DOMAIN snips |-> snips[k].score]

\* C30 (retrieval post-processing): searchVectorDB returns at most topK
\* snippets, each with a score of at least the threshold (a score that is
\* not a number counting as 0), sorted by score in non-increasing order.
C30_PostProcessing ==
    ragOut.called =>
        LET out == ragOut.value
        IN  /\ Len(out) <= ragIn.topK
            /\ \A k \in DOMAIN out : out[k].score >= ragIn.threshold
            /\ \A k \in 1..(Len(out) - 1) : out[k].score >= out[k + 1].score

C30_Witness ==
    /\ ragOut.called
    /\ ragIn.topK = 3
    /\ ragIn.threshold = 15
    /\ Len(ragIn.resp.parsed) = 3
    /\ ragIn.resp.parsed[1].score = NotANumber
    /\ ragIn.resp.parsed[2].score = NumberScore(20)
    /\ ragIn.resp.parsed[3].score = NumberScore(82)
    /\ ScoresOf(ragOut.value) = <<82, 20>>

----------------------------------------------------------------------------
(* Claims about subscriptions (Spec) *)

\* the connections whose upstream session opened and whose client socket
\* has not closed
LiveConnections == {c \in Conns : phase[c] = "ready" /\ client[c] = "open"}

\* C31 (subscription accounting): the listeners on the event bus are exactly
\* the eight forwarders (six stream events, error, closed) of every
\* connection whose upstream session opened and whose socket has not closed,
\* so there are never more than 8 listeners per live connection.
C31_SubscriptionAccounting ==
    /\ listeners = {<<c, e>> : c \in LiveConnections, e \in HandlerEvents}
    /\ Cardinality(listeners) <= 8 * Cardinality(LiveConnections)

----------------------------------------------------------------------------
(* Claims about the rate limit (ToolSpec) *)

\* the step is the done message of a pending call of s arriving less than
\* minToolIntervalMs after the recorded last tool call
RateLimitedDone(s) ==
    /\ Len(doneLog'[s]) = Len(doneLog[s]) + 1
    /\ PendingCall(s, doneLog'[s][Len(doneLog'[s])].id) # Null
    /\ now - OrZero(lastToolAt[s]) < minToolIntervalMs

\* C32 (rate-limited dispatch has no other effect): a tool call rejected by
\* the rate limit sends exactly one tool.output{skipped, rate_limited},
\* starts no retrieval and leaves lastToolAt and the low-confidence counter
\* unchanged.
C32_RateLimitedStep ==
    \A s \in Conns :
        RateLimitedDone(s) =>
            /\ upLog'[s] = Append(upLog[s], SkippedOutput(doneLog'[s][Len(doneLog'[s])].id))
            /\ inflight' = inflight
            /\ lastToolAt' = lastToolAt
            /\ lowConfidenceCount' = lowConfidenceCount

C32_RateLimitedHasNoOtherEffect == [][C32_RateLimitedStep]_vars

----------------------------------------------------------------------------
(* Claims about the upstream keepalive (KeepaliveSpec) *)

KeepaliveStep ==
    \A s \in Conns :
        /\ kaTicks'[s] # kaTicks[s] => keepalive[s] /\ up[s] # "closed"
        /\ upPings'[s] # upPings[s] => up[s] = "open"
        /\ s \notin clients' /\ lastPing[s] = Undefined => lastPing'[s] = Undefined

\* C33: the keepalive interval fires only until the upstream socket closes,
\* pings only while that socket is OPEN, and a session that is not in the
\* registry has no metadata entry, whatever the interval did
C33_KeepaliveLifetime ==
    /\ [][KeepaliveStep]_vars
    /\ [](\A s \in Conns :
            /\ up[s] = "closed" => ~keepalive[s]
            /\ s \notin clients => lastPing[s] = Undefined /\ lastInstrHash[s] = NoHash)

\* the interval pinged once, then fired without a ping on the closing socket
\* of the removed session, and is cancelled now that the socket has closed
C33_Witness ==
    \E s \in Conns :
        /\ upPings[s] = 1
        /\ kaTicks[s] = 2
        /\ s \notin clients
        /\ up[s] = "closed"
        /\ ~keepalive[s]
        /\ lastPing[s] = Undefined

----------------------------------------------------------------------------
(* Claims about the order of tool outputs (ToolSpec) *)

\* the positions in the frames sent upstream of the tool.output frames for call id
OutputPositions(s, id) ==
    {p \in DOMAIN upLog[s] :
        upLog[s][p].type = "tool.output" /\ upLog[s][p].tool_call_id = id}

\* C34: of two tool calls of a session whose arguments.done messages arrive
\* one after the other, the later one is not answered before the earlier one
C34_OutputOrder ==
    \A s \in Conns : \A k1, k2 \in DOMAIN doneLog[s] :
        (k1 < k2 /\ doneLog[s][k1].found /\ doneLog[s][k2].found
            /\ doneLog[s][k1].id # doneLog[s][k2].id) =>
            \A p2 \in OutputPositions(s, doneLog[s][k2].id) :
                \E p1 \in OutputPositions(s, doneLog[s][k1].id) : p1 < p2

----------------------------------------------------------------------------
(* Claims about the low-confidence decision (ConfidenceSpec) *)

Last(seq) == seq[Len(seq)]

\* a retrieval of session s returns in this step
RetrievalReturned(s) == Len(returned'[s]) = Len(returned[s]) + 1

C35_DecisionStep ==
    \A s \in Conns :
        RetrievalReturned(s) =>
            LET found == Last(returned'[s]).found
            IN  /\ Len(results'[s]) = Len(results[s]) + 1
                /\ Last(results'[s]) = "low" <=> found = <<>>
                /\ found # <<>> => lowConfidenceCount'[s] = 0
                /\ found = <<>> =>
                       lowConfidenceCount'[s] = OrZero(lowConfidenceCount[s]) + 1

\* C35: the retrieval client filters with a threshold that is at least the
\* caller's, so the low-confidence branch is taken exactly when the returned
\* list is empty, and a non-empty list resets the low-confidence counter to 0
C35_LowConfidenceIsEmptiness ==
    /\ [][C35_DecisionStep]_vars
    /\ [](\A call \in inflight : call.optThreshold >= call.threshold)

\* one call got an empty list and counted as low confidence; the next call
\* got a snippet and reset the counter
C35_Witness ==
    /\ Len(returned["s1"]) = 2
    /\ returned["s1"][1].found = <<>>
    /\ returned["s1"][2].found = <<82>>
    /\ results["s1"] = <<"low", "ok">>
    /\ lowConfidenceCount["s1"] = 0
    /\ \E k \in DOMAIN dispatches["s1"] : dispatches["s1"][k].outcome = "retrieval"

----------------------------------------------------------------------------
(* Claims about the rate-limit window (ToolSpec) *)

\* C36: a dispatch that passed the rate-limit check, however it was answered
\* (unknown tool, empty query, a retrieval that failed or returned), makes
\* every dispatch of the session within the next minToolIntervalMs rate-limited
C36_WindowConsumed ==
    \A s \in Conns : \A k, j \in DOMAIN dispatches[s] :
        (k < j /\ dispatches[s][k].outcome # "skipped"
            /\ dispatches[s][j].t - dispatches[s][k].t < minToolIntervalMs) =>
            dispatches[s][j].outcome = "skipped"

\* the same, for dispatches of a session that is still registered
C36_WindowConsumedWhileRegistered ==
    \A s \in Conns : \A k, j \in DOMAIN dispatches[s] :
        (k < j /\ dispatches[s][k].outcome # "skipped" /\ dispatches[s][j].reg
            /\ dispatches[s][j].t - dispatches[s][k].t < minToolIntervalMs) =>
            dispatches[s][j].outcome = "skipped"

----------------------------------------------------------------------------
(* Claims about frames during the upstream handshake (AudioSpec) *)

\* a client frame of connection c arrives in this step
FrameArrives(c) == recv'[c] # recv[c] \/ dropped'[c] # dropped[c]

C37_HandshakeFrameStep ==
    \A c \in Conns :
        (phase[c] = "creating" /\ FrameArrives(c)) =>
            /\ dropped'[c] = dropped[c] + 1
            /\ recv' = recv
            /\ upLog' = upLog
            /\ clientOut' = clientOut

\* C37: a client frame that arrives while the upstream session is still
\* opening is neither forwarded upstream nor answered, and the first frame
\* any upstream receives is the initial session.update
C37_FramesDuringHandshake ==
    /\ [][C37_HandshakeFrameStep]_vars
    /\ [](\A c \in Conns : upLog[c] # <<>> => upLog[c][1] = SessionUpdateFrame)

\* a frame was lost during the handshake; after it the session opened and a
\* later frame was forwarded behind session.update
C37_Witness ==
    /\ dropped["s1"] = 1
    /\ phase["s1"] = "ready"
    /\ Len(recv["s1"]) = 1
    /\ Len(upLog["s1"]) >= 2
    /\ upLog["s1"][1] = SessionUpdateFrame
    /\ clientOut["s1"] = <<>>

----------------------------------------------------------------------------
(* Claims about closeSession (CloseSpec) *)

\* closeSession(s) is called in this step
CloseSessionCalled(s) ==
    /\ Len(opLog'[s]) = Len(opLog[s]) + 1
    /\ Last(opLog'[s]).op = "closeSession"

\* the per-session entries of the service for session c are left as they are
EntriesKept(c) ==
    /\ up'[c] = up[c]
    /\ (c \in clients') = (c \in clients)
    /\ lastInstrHash'[c] = lastInstrHash[c]
    /\ fcalls'[c] = fcalls[c]
    /\ lastToolAt'[c] = lastToolAt[c]
    /\ lowConfidenceCount'[c] = lowConfidenceCount[c]
    /\ lastPing'[c] = lastPing[c]

\* the per-session entries of the service for session s are gone
EntriesRemoved(s) ==
    /\ up'[s] = IF up[s] = "open" THEN "closing" ELSE up[s]
    /\ s \notin clients'
    /\ lastInstrHash'[s] = NoHash
    /\ fcalls'[s] = NoMap
    /\ lastToolAt'[s] = Undefined
    /\ lowConfidenceCount'[s] = Undefined
    /\ lastPing'[s] = Undefined

C38_CloseSessionStep ==
    \A s \in Conns :
        CloseSessionCalled(s) =>
            /\ \A c \in Conns \ {s} : EntriesKept(c)
            /\ IF s \in clients THEN EntriesRemoved(s) ELSE EntriesKept(s)
            /\ ~Last(opLog'[s]).res.threw
            /\ UNCHANGED <<client, phase, listeners, llmHandlers, crashed, logVars, inflight,
                           dispatches, keepalive>>

\* C38: closeSession(s) changes only the entries of s; a second
\* closeSession(s), or closeSession of an id that is not registered, changes
\* nothing and does not fail
C38_CloseSessionFrame == [][C38_CloseSessionStep]_vars

\* session s1, with tool state of its own, was closed by a direct call and
\* then closed again, and closeSession was called for s2 before it existed,
\* while s2 is registered now
C38_Witness ==
    /\ Len(opLog["s1"]) = 2
    /\ opLog["s1"][1].reg /\ ~opLog["s1"][2].reg
    /\ Len(opLog["s2"]) = 1 /\ ~opLog["s2"][1].reg
    /\ "s2" \in clients
    /\ dispatches["s1"] # <<>>

----------------------------------------------------------------------------
(* Claims about the legacy voice handler (VoiceSpec) *)

\* the requests for session id that have come to the given point
VoiceRequestsAt(id, at) ==
    {r \in VoiceRequests : voiceRequests[r].id = id /\ voiceRequests[r].at = at}

\* C39: whatever the interleaving of the CREATE_SESSION requests for one
\* session id, at most one upstream session is opened and registered for it
\* and at most one request is answered with SESSION_CREATED
C39_OneSessionPerId ==
    \A id \in VoiceIds :
        /\ voiceOpened[id] <= 1
        /\ Cardinality(VoiceRequestsAt(id, "created")) <= 1

----------------------------------------------------------------------------
(* Claims about the settling of sendTextMessageWithResponse (AwaitLiveSpec) *)

\* the k-th call of session s1 has returned its promise, which is not
\* settled, and its listeners are attached
CallPending(k) ==
    /\ k \in DOMAIN waiters["s1"]
    /\ waiters["s1"][k].state = "pending"
    /\ waiters["s1"][k].attached # {}

\* C40: every sendTextMessageWithResponse call eventually settles, also when
\* the upstream socket or the session closes before any response.done or
\* error message; no call stays pending for ever with its listeners attached
C40_EveryCallSettles ==
    \A k \in 1..MaxAwaitCalls : CallPending(k) ~> ~CallPending(k)

============================================================================
